---- MODULE Spec2Model ----
(***************************************************************************)
(* Grid occupancy engine of the floorplanning GUI (src/src/main.py):       *)
(* the block collection, the selection, the occupancy grid and the         *)
(* handlers that place, delete, select, move, duplicate, swap, rotate,     *)
(* save and load blocks.                                                   *)
(***************************************************************************)
EXTENDS Integers, Sequences, FiniteSets, TLC

(* ---------------------------------------------------------------------- *)
(* Bounds and program constants                                           *)
(* ---------------------------------------------------------------------- *)

\* Number of BlockObject instances that can be alive at once (heap size).
MaxBlocks == 3

\* Number of handler invocations (events) of a session that are explored.
MaxSteps == 7

\* The longest column string and the longest row string typed into the
\* "Move To" prompt.
MaxLen == 2

\* self.GRID_WIDTH, self.GRID_HEIGHT: the design read from the project csv.
GRID_WIDTH == 3
GRID_HEIGHT == 2

\* Python's None where an id(block) is expected; ids are 1..MaxBlocks.
None == 0
Ids == 1..MaxBlocks

\* Python's None where a shape name / a direction is expected.
NoShape == "None"

\* The block csv of the design (block_name, width, height): two shapes of
\* equal dimension, one of the same area and another dimension, and the
\* reserved one-cell Blockage.
BLOCK_CONFIG ==
  [A        |-> [width |-> 2, height |-> 1],
   B        |-> [width |-> 2, height |-> 1],
   C        |-> [width |-> 1, height |-> 2],
   Blockage |-> [width |-> 1, height |-> 1]]

ShapeNames == DOMAIN BLOCK_CONFIG

\* buttons = [(dx, dy) for dy in range(height) for dx in range(width)]
read_block_config(row) ==
  [k \in 1..(row.width * row.height) |->
      <<(k - 1) % row.width, (k - 1) \div row.width>>]

SHAPE_BUTTONS == [s \in ShapeNames |-> read_block_config(BLOCK_CONFIG[s])]

Orientations == <<"R0", "MX", "MY", "R180", "R90">>

(* ---------------------------------------------------------------------- *)
(* State                                                                  *)
(* ---------------------------------------------------------------------- *)

VARIABLES
  block_objects,    \* keys of self.block_objects, in insertion order
  obj,              \* the heap: id -> BlockObject (NoObj when not alive)
  selected_blocks,  \* keys of self.selected_blocks, in insertion order
  selected_shape,   \* self.selected_shape
  grid_state,       \* self.grid_state[x][y]: None or an id
  file,             \* <design>_placement.json on disk
  handler,          \* the handler that ran last
  warning,          \* last message box shown by that handler, or "none"
  exc,              \* exception that ended that handler, or "none"
  args,             \* the input of that handler (event, prompt answers)
  ret,              \* the value that handler returned
  steps             \* number of handlers that have run

vars == <<block_objects, obj, selected_blocks, selected_shape, grid_state,
          file, handler, warning, exc, args, ret, steps>>

(* ---------------------------------------------------------------------- *)
(* Small helpers                                                          *)
(* ---------------------------------------------------------------------- *)

Range(s) == {s[i] : i \in DOMAIN s}

SetMax(S) == CHOOSE m \in S : \A n \in S : n <= m
SetMin(S) == CHOOSE m \in S : \A n \in S : m <= n

\* max(dx for dx, dy in block_shape), max(dy for dx, dy in block_shape)
MaxDx(block_shape) == SetMax({block_shape[k][1] : k \in DOMAIN block_shape})
MaxDy(block_shape) == SetMax({block_shape[k][2] : k \in DOMAIN block_shape})

\* The sequence s without the element v.
SeqRemove(s, v) == SelectSeq(s, LAMBDA e : e # v)

\* [[None for _ in range(GRID_HEIGHT)] for _ in range(GRID_WIDTH)]
EmptyGrid == [x \in 0..(GRID_WIDTH - 1) |-> [y \in 0..(GRID_HEIGHT - 1) |-> None]]

\* The cells of a block: anchor + footprint offsets.
Cells(b) == {<<b.x + b.block_shape[k][1], b.y + b.block_shape[k][2]>> :
               k \in DOMAIN b.block_shape}

InGrid(x, y) == 0 <= x /\ x < GRID_WIDTH /\ 0 <= y /\ y < GRID_HEIGHT

(* ---------------------------------------------------------------------- *)
(* BlockObject                                                            *)
(* ---------------------------------------------------------------------- *)

BlockObject(cell_name, x, y, block_shape, orientation) ==
  [cell_name     |-> cell_name,
   x             |-> x,
   y             |-> y,
   orientation   |-> orientation,
   block_shape   |-> block_shape,
   llx_in_canvas |-> x,
   lly_in_canvas |-> y,
   urx_in_canvas |-> x + MaxDx(block_shape),
   ury_in_canvas |-> y + MaxDy(block_shape)]

\* Heap slot of an id no live object has.
NoObj ==
  [cell_name     |-> NoShape,
   x             |-> 0,
   y             |-> 0,
   orientation   |-> "R0",
   block_shape   |-> <<>>,
   llx_in_canvas |-> 0,
   lly_in_canvas |-> 0,
   urx_in_canvas |-> 0,
   ury_in_canvas |-> 0]

\* update_location that sets the anchor and leaves the cached box as it was.
update_location_stale_box(b, x, y) ==
  [b EXCEPT !.x = x, !.y = y]

update_location(b, x, y) ==
  [b EXCEPT !.x = x,
            !.y = y,
            !.llx_in_canvas = x,
            !.lly_in_canvas = y,
            !.urx_in_canvas = x + MaxDx(b.block_shape),
            !.ury_in_canvas = y + MaxDy(b.block_shape)]

OrientationIndex(o) == CHOOSE i \in DOMAIN Orientations : Orientations[i] = o

\* An orientation change that swaps the places of R180 and R90 in the cycle.
update_orientation_R90_first(b) ==
  [b EXCEPT !.orientation =
      <<"R0", "MX", "MY", "R90", "R180">>[
        (((CHOOSE i \in 1..5 : <<"R0", "MX", "MY", "R90", "R180">>[i] = b.orientation) - 1 + 1) % 5) + 1]]

\* next_index = (orientations.index(o) + 1) % len(orientations), 0-based
update_orientation(b) ==
  [b EXCEPT !.orientation =
      Orientations[((OrientationIndex(b.orientation) - 1 + 1) % Len(Orientations)) + 1]]

(* ---------------------------------------------------------------------- *)
(* Heap: id(block) and reference counting                                 *)
(* ---------------------------------------------------------------------- *)

\* The objects something still refers to: values of self.block_objects and
\* keys of self.selected_blocks.
Live(bo, sel) == Range(bo) \cup Range(sel)

\* id() of a newly constructed BlockObject: an address no live object has
\* (the allocator hands out the lowest free one; a freed address is reused).
HasFree(bo, sel) == Ids \ Live(bo, sel) # {}
NewId(bo, sel) == SetMin(Ids \ Live(bo, sel))

\* Objects nothing refers to any more are freed.
Collect(ob, bo, sel) == [i \in Ids |-> IF i \in Live(bo, sel) THEN ob[i] ELSE NoObj]

(* ---------------------------------------------------------------------- *)
(* draw_block: the grid part (the canvas items are not modelled)          *)
(* ---------------------------------------------------------------------- *)

\* for dx, dy in block_shape: grid_state[x + dx][y + dy] = id(block)
draw_block(g, id, b) ==
  [x \in 0..(GRID_WIDTH - 1) |-> [y \in 0..(GRID_HEIGHT - 1) |->
      IF <<x, y>> \in Cells(b) THEN id ELSE g[x][y]]]

\* for dx, dy in block_shape: grid_state[x + dx][y + dy] = None
clean_up(g, b) ==
  [x \in 0..(GRID_WIDTH - 1) |-> [y \in 0..(GRID_HEIGHT - 1) |->
      IF <<x, y>> \in Cells(b) THEN None ELSE g[x][y]]]

\* for i, j: if grid_state[i][j] == block_id: grid_state[i][j] = None
clear_id(g, block_id) ==
  [x \in 0..(GRID_WIDTH - 1) |-> [y \in 0..(GRID_HEIGHT - 1) |->
      IF g[x][y] = block_id THEN None ELSE g[x][y]]]

\* draw(): draw_block for every value of block_objects, in dict order.
RECURSIVE draw_from(_, _, _, _)
draw_from(g, bo, ob, k) ==
  IF k > Len(bo) THEN g
  ELSE draw_from(draw_block(g, bo[k], ob[bo[k]]), bo, ob, k + 1)

draw(g, bo, ob) == draw_from(g, bo, ob, 1)

(* ---------------------------------------------------------------------- *)
(* is_legal_location                                                      *)
(* ---------------------------------------------------------------------- *)

\* A read grid[x][y] as Python does it: an index in [-len, 0) counts from
\* the end, an index outside [-len, len) raises IndexError.
PyIndex(i, n) == IF 0 <= i /\ i < n THEN i ELSE IF -n <= i /\ i < 0 THEN i + n ELSE -1

GridRaises(x, y) == PyIndex(x, GRID_WIDTH) = -1 \/ PyIndex(y, GRID_HEIGHT) = -1

GridRead(g, x, y) == g[PyIndex(x, GRID_WIDTH)][PyIndex(y, GRID_HEIGHT)]

\* The condition of line 587 with the upper bounds tested by > instead of >=.
LegalCellOffByOne(g, grid_x, grid_y) ==
  IF grid_x < 0 \/ grid_x > GRID_WIDTH \/ grid_y < 0 \/ grid_y > GRID_HEIGHT
  THEN [bad |-> TRUE, read |-> "none"]
  ELSE IF GridRaises(grid_x, grid_y) THEN [bad |-> TRUE, read |-> "IndexError"]
  ELSE [bad  |-> GridRead(g, grid_x, grid_y) # None,
        read |-> IF grid_x < 0 \/ grid_y < 0 THEN "wrapped" ELSE "inside"]

\* The condition of line 587 for one footprint cell, evaluated left to
\* right with Python's short-circuit "or". bad: the condition is true.
\* read: how grid_state was indexed: "none" (not read), "inside", "wrapped"
\* (a negative index, counted from the end) or "IndexError".
LegalCell(g, grid_x, grid_y) ==
  IF grid_x < 0 \/ grid_x >= GRID_WIDTH \/ grid_y < 0 \/ grid_y >= GRID_HEIGHT
  THEN [bad |-> TRUE, read |-> "none"]
  ELSE IF GridRaises(grid_x, grid_y) THEN [bad |-> TRUE, read |-> "IndexError"]
  ELSE [bad  |-> GridRead(g, grid_x, grid_y) # None,
        read |-> IF grid_x < 0 \/ grid_y < 0 THEN "wrapped" ELSE "inside"]

\* for dx, dy in SHAPE_BUTTONS[shape]: ... return False  /  return True
\* ret: the value returned; exc: the exception raised instead, or "none";
\* wrapped: some read of the grid used a negative index.
RECURSIVE is_legal_from(_, _, _, _, _, _)
is_legal_from(g, x, y, shape, k, wrapped) ==
  IF k > Len(SHAPE_BUTTONS[shape]) THEN [ret |-> TRUE, exc |-> "none", wrapped |-> wrapped]
  ELSE LET c == LegalCell(g, x + SHAPE_BUTTONS[shape][k][1], y + SHAPE_BUTTONS[shape][k][2])
           w == wrapped \/ c.read = "wrapped"
       IN  IF c.read = "IndexError" THEN [ret |-> FALSE, exc |-> "IndexError", wrapped |-> w]
           ELSE IF c.bad THEN [ret |-> FALSE, exc |-> "none", wrapped |-> w]
           ELSE is_legal_from(g, x, y, shape, k + 1, w)

\* A legality check that looks at the anchor cell only.
is_legal_anchor_only(g, x, y, shape) ==
  LET c == LegalCell(g, x, y)
  IN  [ret |-> ~c.bad, exc |-> "none", wrapped |-> FALSE]

is_legal_location(g, x, y, shape) == is_legal_from(g, x, y, shape, 1, FALSE)

(* ---------------------------------------------------------------------- *)
(* Init                                                                   *)
(* ---------------------------------------------------------------------- *)

\* <design>_placement.json: whether it exists (os.path.isfile) and the
\* records in it.
NoFile == [exists |-> FALSE, db |-> <<>>]

\* The input of a handler that takes none.
NoArgs == <<>>

\* A click: the grid cell of event.x, event.y (line 597).
Click(x, y) == [x |-> x, y |-> y]

\* A drag in a region mode: the mode and the rectangle of lines 501-504.
Drag(mode, x_start, x_end, y_start, y_end) ==
  [mode |-> mode, x_start |-> x_start, x_end |-> x_end, y_start |-> y_start, y_end |-> y_end]

\* A move key: the offset its handler passes to move().
Offset(x_offset, y_offset) == [x_offset |-> x_offset, y_offset |-> y_offset]

Init ==
  /\ block_objects = <<>>
  /\ obj = [i \in Ids |-> NoObj]
  /\ selected_blocks = <<>>
  /\ selected_shape = NoShape
  /\ grid_state = EmptyGrid
  /\ file = NoFile
  /\ handler = "none"
  /\ warning = "none"
  /\ exc = "none"
  /\ args = NoArgs
  /\ ret = "None"
  /\ steps = 0

(* ---------------------------------------------------------------------- *)
(* Handlers                                                               *)
(* ---------------------------------------------------------------------- *)

\* Grid coordinates a click can have: every cell of the grid and, since the
\* canvas widget may be larger than the grid, cells one and two past the
\* right and the bottom edge.
ClickCells ==
  ((0..(GRID_WIDTH - 1)) \X (0..(GRID_HEIGHT - 1)))
    \cup {<<GRID_WIDTH, 0>>, <<0, GRID_HEIGHT>>, <<GRID_WIDTH + 1, 0>>, <<0, GRID_HEIGHT + 1>>}

\* Every handler is one event of the session.
Tick == steps < MaxSteps /\ steps' = steps + 1

\* What a run of handler h on input a leaves behind: the value r it returned,
\* the message w it showed and the exception e that ended it.
Done(h, a, r, w, e) ==
  /\ handler' = h
  /\ args' = a
  /\ ret' = r
  /\ warning' = w
  /\ exc' = e
  /\ Tick

\* A handler that changes nothing but the message shown / exception raised.
Report(h, a, r, w, e) ==
  /\ Done(h, a, r, w, e)
  /\ UNCHANGED <<block_objects, obj, selected_blocks, selected_shape, grid_state, file>>

\* A call of is_legal_location on its own: nothing changes but what the call
\* leaves behind. A read with a negative index does not raise in Python; it
\* is recorded as "NegativeIndex".
is_legal_call(x, y, shape, warn) ==
  LET r == is_legal_location(grid_state, x, y, shape)
  IN  /\ handler' = "is_legal_location"
      /\ args' = [x |-> x, y |-> y, shape |-> shape, warning |-> warn]
      /\ ret' = IF r.ret THEN "True" ELSE "False"
      /\ warning' = IF warn /\ ~r.ret /\ r.exc = "none" THEN "InvalidPlacement" ELSE "none"
      /\ exc' = IF r.exc # "none" THEN r.exc
                ELSE IF r.wrapped THEN "NegativeIndex" ELSE "none"
      /\ UNCHANGED <<block_objects, obj, selected_blocks, selected_shape, grid_state, file, steps>>

\* select_shape: a click on a shape button.
select_shape(shape) ==
  /\ selected_shape' = shape
  /\ Done("select_shape", [shape |-> shape], "None", "SelectBlock", "none")
  /\ UNCHANGED <<block_objects, obj, selected_blocks, grid_state, file>>

\* canvas_operations in mode "Place".
Place(x, y) ==
  LET a == Click(x, y)
      r == is_legal_location(grid_state, x, y, selected_shape)
  IN  IF x > GRID_WIDTH \/ y > GRID_HEIGHT THEN Report("Place", a, "None", "IndexOutOfRange", "none")
      ELSE IF selected_shape = NoShape THEN Report("Place", a, "None", "none", "none")
      ELSE IF r.exc # "none" THEN Report("Place", a, "None", "none", r.exc)
      ELSE IF ~r.ret THEN Report("Place", a, "None", "InvalidPlacement", "none")
      ELSE /\ HasFree(block_objects, selected_blocks)
           /\ LET id == NewId(block_objects, selected_blocks)
                  b  == BlockObject(selected_shape, x, y, SHAPE_BUTTONS[selected_shape], "R0")
              IN  /\ obj' = [obj EXCEPT ![id] = b]
                  /\ grid_state' = draw_block(grid_state, id, b)
                  /\ block_objects' = Append(block_objects, id)
           /\ Done("Place", a, "None", "none", "none")
           /\ UNCHANGED <<selected_blocks, selected_shape, file>>

\* canvas_operations in mode "Delete".
Delete(x, y) ==
  LET a == Click(x, y)
      block_id == GridRead(grid_state, x, y)
  IN  IF x > GRID_WIDTH \/ y > GRID_HEIGHT THEN Report("Delete", a, "None", "IndexOutOfRange", "none")
      ELSE IF GridRaises(x, y) THEN Report("Delete", a, "None", "none", "IndexError")
      ELSE IF block_id = None THEN Report("Delete", a, "None", "NoObject", "none")
      ELSE IF block_id \notin Range(block_objects) THEN Report("Delete", a, "None", "none", "KeyError")
      ELSE /\ block_objects' = SeqRemove(block_objects, block_id)
           /\ grid_state' = clear_id(grid_state, block_id)
           /\ obj' = Collect(obj, block_objects', selected_blocks)
           /\ Done("Delete", a, "None", "none", "none")
           /\ UNCHANGED <<selected_blocks, selected_shape, file>>

\* canvas_operations in mode "Change Orientation".
ChangeOrientation(x, y) ==
  LET a == Click(x, y)
      block_id == GridRead(grid_state, x, y)
  IN  IF x > GRID_WIDTH \/ y > GRID_HEIGHT
      THEN Report("ChangeOrientation", a, "None", "IndexOutOfRange", "none")
      ELSE IF GridRaises(x, y) THEN Report("ChangeOrientation", a, "None", "none", "IndexError")
      ELSE IF block_id = None THEN Report("ChangeOrientation", a, "None", "NoObject", "none")
      ELSE IF block_id \notin Range(block_objects)
      THEN Report("ChangeOrientation", a, "None", "none", "KeyError")
      ELSE /\ obj' = [obj EXCEPT ![block_id] = update_orientation(obj[block_id])]
           /\ grid_state' = draw_block(grid_state, block_id, obj'[block_id])
           /\ Done("ChangeOrientation", a, "None", "none", "none")
           /\ UNCHANGED <<block_objects, selected_blocks, selected_shape, file>>

(* ---------------------------------------------------------------------- *)
(* on_release: the drag modes                                             *)
(* ---------------------------------------------------------------------- *)

\* x_start..x_end / y_start..y_end: min and max of the press and the release
\* coordinate. The press is accepted up to GRID_WIDTH / GRID_HEIGHT (line
\* 599), the release is wherever the pointer is; cells outside the grid are
\* skipped by every loop, so the rectangles inside the grid and one that
\* spills over the right and the bottom edge stand for all of them.
DragRects ==
  {r \in (0..(GRID_WIDTH - 1)) \X (0..(GRID_WIDTH - 1))
          \X (0..(GRID_HEIGHT - 1)) \X (0..(GRID_HEIGHT - 1)) :
      r[1] <= r[2] /\ r[3] <= r[4]}
    \cup {<<GRID_WIDTH - 1, GRID_WIDTH, GRID_HEIGHT - 1, GRID_HEIGHT>>}

\* for x in range(x_start, x_end + 1): for y in range(y_start, y_end + 1)
RegionCells(x_start, x_end, y_start, y_end) ==
  LET ny == y_end - y_start + 1
  IN  [k \in 1..((x_end - x_start + 1) * ny) |->
         <<x_start + ((k - 1) \div ny), y_start + ((k - 1) % ny)>>]

\* A region fill that stops after the first block it places.
RECURSIVE place_blockage_first_only(_, _, _, _)
place_blockage_first_only(cells, k, sel, st) ==
  IF k > Len(cells) \/ st.full THEN st
  ELSE LET x == cells[k][1]
           y == cells[k][2]
       IN  IF ~(InGrid(x, y) /\ st.g[x][y] = None)
           THEN place_blockage_first_only(cells, k + 1, sel, st)
           ELSE IF ~is_legal_location(st.g, x, y, "Blockage").ret
           THEN place_blockage_first_only(cells, k + 1, sel, st)
           ELSE IF ~HasFree(st.bo, sel)
           THEN [st EXCEPT !.full = TRUE]
           ELSE LET id == NewId(st.bo, sel)
                    b  == BlockObject("Blockage", x, y, SHAPE_BUTTONS["Blockage"], "R0")
                IN  [bo   |-> Append(st.bo, id),
                     ob   |-> [st.ob EXCEPT ![id] = b],
                     g    |-> draw_block(st.g, id, b),
                     full |-> FALSE]

\* mode "Place Blockage", lines 506-513. st = [bo, ob, g, full]; full is set
\* when the heap bound stops the loop (the action is then not taken).
RECURSIVE place_blockage_from(_, _, _, _)
place_blockage_from(cells, k, sel, st) ==
  IF k > Len(cells) \/ st.full THEN st
  ELSE LET x == cells[k][1]
           y == cells[k][2]
       IN  IF ~(InGrid(x, y) /\ st.g[x][y] = None)
           THEN place_blockage_from(cells, k + 1, sel, st)
           ELSE IF ~is_legal_location(st.g, x, y, "Blockage").ret
           THEN place_blockage_from(cells, k + 1, sel, st)
           ELSE IF ~HasFree(st.bo, sel)
           THEN [st EXCEPT !.full = TRUE]
           ELSE LET id == NewId(st.bo, sel)
                    b  == BlockObject("Blockage", x, y, SHAPE_BUTTONS["Blockage"], "R0")
                IN  place_blockage_from(cells, k + 1, sel,
                      [bo   |-> Append(st.bo, id),
                       ob   |-> [st.ob EXCEPT ![id] = b],
                       g    |-> draw_block(st.g, id, b),
                       full |-> FALSE])

PlaceBlockage(x_start, x_end, y_start, y_end) ==
  LET st == place_blockage_from(RegionCells(x_start, x_end, y_start, y_end), 1,
              selected_blocks,
              [bo |-> block_objects, ob |-> obj, g |-> grid_state, full |-> FALSE])
  IN  /\ ~st.full
      /\ block_objects' = st.bo
      /\ obj' = st.ob
      /\ grid_state' = st.g
      /\ Done("PlaceBlockage", Drag("Place Blockage", x_start, x_end, y_start, y_end),
              "None", "none", "none")
      /\ UNCHANGED <<selected_blocks, selected_shape, file>>

\* modes "Delete Region" and "Delete Blockage", lines 514-525.
\* st = [bo, g, exc]; a KeyError ends the handler where it is raised.
RECURSIVE delete_region_from(_, _, _, _, _)
delete_region_from(cells, k, mode, ob, st) ==
  IF k > Len(cells) \/ st.exc # "none" THEN st
  ELSE LET x == cells[k][1]
           y == cells[k][2]
       IN  IF ~(InGrid(x, y) /\ st.g[x][y] # None)
           THEN delete_region_from(cells, k + 1, mode, ob, st)
           ELSE LET block_id == st.g[x][y]
                IN  IF block_id \notin Range(st.bo)
                    THEN [st EXCEPT !.exc = "KeyError"]
                    ELSE IF mode = "Delete Blockage" /\ ob[block_id].cell_name # "Blockage"
                    THEN delete_region_from(cells, k + 1, mode, ob, st)
                    ELSE delete_region_from(cells, k + 1, mode, ob,
                           [bo  |-> SeqRemove(st.bo, block_id),
                            g   |-> clear_id(st.g, block_id),
                            exc |-> "none"])

DeleteRegion(mode, x_start, x_end, y_start, y_end) ==
  LET st == delete_region_from(RegionCells(x_start, x_end, y_start, y_end), 1, mode, obj,
              [bo |-> block_objects, g |-> grid_state, exc |-> "none"])
  IN  /\ block_objects' = st.bo
      /\ grid_state' = st.g
      /\ obj' = Collect(obj, st.bo, selected_blocks)
      /\ Done("DeleteRegion", Drag(mode, x_start, x_end, y_start, y_end), "None", "none", st.exc)
      /\ UNCHANGED <<selected_blocks, selected_shape, file>>

\* modes "Select wi blockage" and "Select wo blockage", lines 526-546.
\* st = [sel, exc].
RECURSIVE select_from(_, _, _, _, _, _, _)
select_from(cells, k, mode, bo, ob, g, st) ==
  IF k > Len(cells) \/ st.exc # "none" THEN st
  ELSE LET x == cells[k][1]
           y == cells[k][2]
       IN  IF ~(InGrid(x, y) /\ g[x][y] # None)
           THEN select_from(cells, k + 1, mode, bo, ob, g, st)
           ELSE LET block_id == g[x][y]
                IN  IF block_id \notin Range(bo)
                    THEN [st EXCEPT !.exc = "KeyError"]
                    ELSE IF block_id \in Range(st.sel)
                    THEN select_from(cells, k + 1, mode, bo, ob, g, st)
                    ELSE IF mode = "Select wo blockage" /\ ob[block_id].cell_name = "Blockage"
                    THEN select_from(cells, k + 1, mode, bo, ob, g, st)
                    ELSE select_from(cells, k + 1, mode, bo, ob, g,
                           [st EXCEPT !.sel = Append(st.sel, block_id)])

\* The loop is followed by update_cell_size -> draw(), which a KeyError skips.
Select(mode, x_start, x_end, y_start, y_end) ==
  LET st == select_from(RegionCells(x_start, x_end, y_start, y_end), 1, mode,
              block_objects, obj, grid_state, [sel |-> <<>>, exc |-> "none"])
  IN  /\ selected_blocks' = st.sel
      /\ obj' = Collect(obj, block_objects, st.sel)
      /\ grid_state' = IF st.exc = "none" THEN draw(grid_state, block_objects, obj)
                       ELSE grid_state
      /\ Done("Select", Drag(mode, x_start, x_end, y_start, y_end), "None", "none", st.exc)
      /\ UNCHANGED <<block_objects, selected_shape, file>>

\* fit_fp / zoom_in_on_mouse_wheel / zoom_out_on_mouse_wheel:
\* update_cell_size -> draw().
Redraw ==
  /\ grid_state' = draw(grid_state, block_objects, obj)
  /\ Done("Redraw", NoArgs, "None", "none", "none")
  /\ UNCHANGED <<block_objects, obj, selected_blocks, selected_shape, file>>

(* ---------------------------------------------------------------------- *)
(* move (keys a / d / w / s)                                              *)
(* ---------------------------------------------------------------------- *)

\* is_position_free: "free", or the warning it shows.
is_position_free(x, y, g) ==
  IF 0 <= x /\ x < GRID_WIDTH /\ 0 <= y /\ y < GRID_HEIGHT
  THEN IF g[x][y] # None THEN "CellOccupied" ELSE "free"
  ELSE "OutOfBounds"

\* The positions can_move probes for one block, in the order of lines 322-331:
\* one column (the left edge when x_offset < 0, else the right edge), then one
\* row (the top edge when y_offset < 0, else the bottom edge).
ProbeCells(b, x_offset, y_offset) ==
  LET new_llx == b.llx_in_canvas + x_offset
      new_lly == b.lly_in_canvas + y_offset
      new_urx == b.urx_in_canvas + x_offset
      new_ury == b.ury_in_canvas + y_offset
  IN  [i \in 1..(new_ury - new_lly + 1) |->
         <<IF x_offset < 0 THEN new_llx ELSE new_urx, new_lly + i - 1>>]
      \o
      [i \in 1..(new_urx - new_llx + 1) |->
         <<new_llx + i - 1, IF y_offset < 0 THEN new_lly ELSE new_ury>>]

RECURSIVE first_not_free(_, _, _)
first_not_free(cells, k, g) ==
  IF k > Len(cells) THEN "free"
  ELSE LET r == is_position_free(cells[k][1], cells[k][2], g)
       IN  IF r # "free" THEN r ELSE first_not_free(cells, k + 1, g)

RECURSIVE can_move_from(_, _, _, _, _, _)
can_move_from(sel, k, ob, new_grid_state, x_offset, y_offset) ==
  IF k > Len(sel) THEN "free"
  ELSE LET r == first_not_free(ProbeCells(ob[sel[k]], x_offset, y_offset), 1, new_grid_state)
       IN  IF r # "free" THEN r
           ELSE can_move_from(sel, k + 1, ob, new_grid_state, x_offset, y_offset)

\* can_move: "free" for True, else the warning shown before returning False.
can_move(sel, ob, g, x_offset, y_offset) ==
  LET new_grid_state ==
        [x \in 0..(GRID_WIDTH - 1) |-> [y \in 0..(GRID_HEIGHT - 1) |->
           IF g[x][y] \in Range(sel) THEN None ELSE g[x][y]]]
  IN  can_move_from(sel, 1, ob, new_grid_state, x_offset, y_offset)

\* The loop of lines 353-359, one selected block after the other. st = [ob, g].
RECURSIVE move_from(_, _, _, _, _)
move_from(sel, k, x_offset, y_offset, st) ==
  IF k > Len(sel) THEN st
  ELSE LET id == sel[k]
           b  == update_location(st.ob[id], st.ob[id].x + x_offset, st.ob[id].y + y_offset)
       IN  move_from(sel, k + 1, x_offset, y_offset,
             [ob |-> [st.ob EXCEPT ![id] = b],
              g  |-> draw_block(clean_up(st.g, st.ob[id]), id, b)])

\* move that shifts every placed block instead of the selected ones.
move_all_placed(x_offset, y_offset) ==
  LET a  == Offset(x_offset, y_offset)
      r  == can_move(selected_blocks, obj, grid_state, x_offset, y_offset)
      st == move_from(block_objects, 1, x_offset, y_offset, [ob |-> obj, g |-> grid_state])
  IN  IF Len(selected_blocks) = 0 THEN Report("move", a, "False", "NoSelection", "none")
      ELSE IF r # "free" THEN Report("move", a, "False", r, "none")
      ELSE /\ obj' = st.ob
           /\ grid_state' = st.g
           /\ Done("move", a, "True", "none", "none")
           /\ UNCHANGED <<block_objects, selected_blocks, selected_shape, file>>

\* move without the check of main.py 347-349.
move_unchecked_selection(x_offset, y_offset) ==
  LET a  == Offset(x_offset, y_offset)
      r  == can_move(selected_blocks, obj, grid_state, x_offset, y_offset)
      st == move_from(selected_blocks, 1, x_offset, y_offset, [ob |-> obj, g |-> grid_state])
  IN  IF r # "free" THEN Report("move", a, "False", r, "none")
      ELSE /\ obj' = st.ob
           /\ grid_state' = st.g
           /\ Done("move", a, "True", "none", "none")
           /\ UNCHANGED <<block_objects, selected_blocks, selected_shape, file>>

move(x_offset, y_offset) ==
  LET a == Offset(x_offset, y_offset)
      r == can_move(selected_blocks, obj, grid_state, x_offset, y_offset)
  IN  IF Len(selected_blocks) = 0 THEN Report("move", a, "False", "NoSelection", "none")
      ELSE IF r # "free" THEN Report("move", a, "False", r, "none")
      ELSE LET st == move_from(selected_blocks, 1, x_offset, y_offset,
                               [ob |-> obj, g |-> grid_state])
           IN  /\ obj' = st.ob
               /\ grid_state' = st.g
               /\ Done("move", a, "True", "none", "none")
               /\ UNCHANGED <<block_objects, selected_blocks, selected_shape, file>>

\* move_left, move_right, move_up, move_down
MoveOffsets == {<<-1, 0>>, <<1, 0>>, <<0, -1>>, <<0, 1>>}

(* ---------------------------------------------------------------------- *)
(* swap (key x)                                                           *)
(* ---------------------------------------------------------------------- *)

\* swap_block's test weakened to the number of footprint cells.
SameCellCount(cell_name, shape) == Len(SHAPE_BUTTONS[cell_name]) = Len(SHAPE_BUTTONS[shape])

\* swap_block's test: the two footprint lists are equal.
SameDimension(cell_name, shape) == SHAPE_BUTTONS[cell_name] = SHAPE_BUTTONS[shape]

\* swap_block for the first selected block only.
swap_first_only(sel, k, shape, st) ==
  IF Len(sel) = 0 THEN st
  ELSE LET id == sel[1]
       IN  IF SameDimension(st.ob[id].cell_name, shape)
           THEN LET b == [st.ob[id] EXCEPT !.cell_name = shape]
                IN  [st EXCEPT !.ob = [st.ob EXCEPT ![id] = b],
                               !.g  = draw_block(st.g, id, b)]
           ELSE [st EXCEPT !.warning = "ShapeMismatch"]

\* swap_block for every selected block, in order. st = [ob, g, warning].
RECURSIVE swap_from(_, _, _, _)
swap_from(sel, k, shape, st) ==
  IF k > Len(sel) THEN st
  ELSE LET id == sel[k]
       IN  IF SameDimension(st.ob[id].cell_name, shape)
           THEN LET b == [st.ob[id] EXCEPT !.cell_name = shape]
                IN  swap_from(sel, k + 1, shape,
                      [st EXCEPT !.ob = [st.ob EXCEPT ![id] = b],
                                 !.g  = draw_block(st.g, id, b)])
           ELSE swap_from(sel, k + 1, shape, [st EXCEPT !.warning = "ShapeMismatch"])

swap_main ==
  IF Len(selected_blocks) = 0 THEN Report("swap_main", NoArgs, "None", "NoSelection", "none")
  ELSE IF selected_shape = NoShape THEN Report("swap_main", NoArgs, "None", "NoTargetShape", "none")
  ELSE LET st == swap_from(selected_blocks, 1, selected_shape,
                           [ob |-> obj, g |-> grid_state, warning |-> "none"])
       IN  /\ obj' = st.ob
           /\ grid_state' = st.g
           /\ Done("swap_main", NoArgs, "None", st.warning, "none")
           /\ UNCHANGED <<block_objects, selected_blocks, selected_shape, file>>

(* ---------------------------------------------------------------------- *)
(* move_to (key t)                                                        *)
(* ---------------------------------------------------------------------- *)

UpperCase == <<"A", "B", "C", "D", "E", "F", "G", "H", "I", "J", "K", "L", "M",
               "N", "O", "P", "Q", "R", "S", "T", "U", "V", "W", "X", "Y", "Z">>
LowerCase == <<"a", "b", "c", "d", "e", "f", "g", "h", "i", "j", "k", "l", "m",
               "n", "o", "p", "q", "r", "s", "t", "u", "v", "w", "x", "y", "z">>
DigitChars == <<"0", "1", "2", "3", "4", "5", "6", "7", "8", "9">>

IsLetter(c) == \E i \in DOMAIN UpperCase : c = UpperCase[i] \/ c = LowerCase[i]
IsDigit(c) == \E i \in DOMAIN DigitChars : c = DigitChars[i]

\* ord(char.upper()) - ord('A') + 1
LetterValue(c) ==
  IF \E i \in DOMAIN UpperCase : c = UpperCase[i] THEN CHOOSE i \in DOMAIN UpperCase : UpperCase[i] = c
  ELSE CHOOSE i \in DOMAIN LowerCase : LowerCase[i] = c

DigitValue(c) == (CHOOSE i \in DOMAIN DigitChars : DigitChars[i] = c) - 1

\* [A-Za-z]+ and [0-9]+ are greedy: the length of the run of letters
\* (digits) of s that starts at position k.
RECURSIVE LetterRun(_, _)
LetterRun(s, k) == IF k > Len(s) \/ ~IsLetter(s[k]) THEN 0 ELSE 1 + LetterRun(s, k + 1)

RECURSIVE DigitRun(_, _)
DigitRun(s, k) == IF k > Len(s) \/ ~IsDigit(s[k]) THEN 0 ELSE 1 + DigitRun(s, k + 1)

\* re.match(r"([A-Za-z]+)([0-9]+)", target_position): anchored at the start
\* only. <<>> when there is no match, else <<col_str, row_str>>.
match_position(target_position) ==
  LET nl == LetterRun(target_position, 1)
      nd == DigitRun(target_position, nl + 1)
  IN  IF nl = 0 \/ nd = 0 THEN <<>>
      ELSE <<SubSeq(target_position, 1, nl), SubSeq(target_position, nl + 1, nl + nd)>>

\* for char in col_str.upper(): col = col * 26 + (ord(char) - ord('A') + 1)
RECURSIVE excel_col_from(_, _, _)
excel_col_from(col_str, k, col) ==
  IF k > Len(col_str) THEN col
  ELSE excel_col_from(col_str, k + 1, col * 26 + LetterValue(col_str[k]))

\* A conversion that forgets the adjustment to a 0-based index.
excel_col_one_based(col_str) == excel_col_from(col_str, 1, 0)

excel_col_to_index(col_str) == excel_col_from(col_str, 1, 0) - 1

\* int(row_str)
RECURSIVE int_from(_, _, _)
int_from(row_str, k, n) ==
  IF k > Len(row_str) THEN n
  ELSE int_from(row_str, k + 1, n * 10 + DigitValue(row_str[k]))

int(row_str) == int_from(row_str, 1, 0)

\* can_move_to: "free" for True, else the warning shown before returning False.
RECURSIVE can_move_to_from(_, _, _, _, _, _)
can_move_to_from(g, id, b, k, x_offset, y_offset) ==
  IF k > Len(b.block_shape) THEN "free"
  ELSE LET new_x == b.x + b.block_shape[k][1] + x_offset
           new_y == b.y + b.block_shape[k][2] + y_offset
       IN  IF ~(0 <= new_x /\ new_x < GRID_WIDTH /\ 0 <= new_y /\ new_y < GRID_HEIGHT)
           THEN "OutOfBounds"
           ELSE IF g[new_x][new_y] # None /\ g[new_x][new_y] # id
           THEN "CellOccupied"
           ELSE can_move_to_from(g, id, b, k + 1, x_offset, y_offset)

\* A can_move_to that treats the block's own cells as occupied.
can_move_to_no_self(g, id, b, x_offset, y_offset) ==
  can_move_to_from(g, None - 1, b, 1, x_offset, y_offset)

can_move_to(g, id, b, x_offset, y_offset) == can_move_to_from(g, id, b, 1, x_offset, y_offset)

\* What the user types into the "Move To" prompt; <<>> is an empty answer or
\* a cancelled prompt.
MoveToInputs ==
  { <<>>,
    <<"A", "1">>, <<"B", "1">>, <<"c", "1">>, <<"A", "2">>, <<"b", "2">>, <<"C", "2">>,
    <<"D", "1">>, <<"A", "3">>, <<"A", "0">>, <<"A", "A", "1">>,
    <<"1", "A">>, <<"B", "2", "x">> }

\* A move-to that only refuses an empty selection and otherwise moves the
\* first selected block.
move_to_first_selected(target_position) ==
  LET a == [target_position |-> target_position]
  IN  IF Len(selected_blocks) = 0
      THEN Report("move_to", a, "False", "InvalidSelectionCount", "none")
      ELSE IF target_position = <<>> THEN Report("move_to", a, "False", "none", "none")
      ELSE IF match_position(target_position) = <<>>
      THEN Report("move_to", a, "False", "MalformedInput", "none")
      ELSE LET selected_block == selected_blocks[1]
               b        == obj[selected_block]
               col      == excel_col_to_index(match_position(target_position)[1])
               row      == int(match_position(target_position)[2]) - 1
               x_offset == col - b.x
               y_offset == row - b.y
               r        == can_move_to(grid_state, selected_block, b, x_offset, y_offset)
           IN  IF r # "free" THEN Report("move_to", a, "False", r, "none")
               ELSE LET nb == update_location(b, b.x + x_offset, b.y + y_offset)
                    IN  /\ obj' = [obj EXCEPT ![selected_block] = nb]
                        /\ grid_state' = draw_block(clean_up(grid_state, b), selected_block, nb)
                        /\ Done("move_to", a, "True", "none", "none")
                        /\ UNCHANGED <<block_objects, selected_blocks, selected_shape, file>>

move_to(target_position) ==
  LET a == [target_position |-> target_position]
  IN  IF Len(selected_blocks) # 1
      THEN Report("move_to", a, "False", "InvalidSelectionCount", "none")
      ELSE IF target_position = <<>> THEN Report("move_to", a, "False", "none", "none")
      ELSE IF match_position(target_position) = <<>>
      THEN Report("move_to", a, "False", "MalformedInput", "none")
      ELSE LET selected_block == selected_blocks[1]
               b        == obj[selected_block]
               col      == excel_col_to_index(match_position(target_position)[1])
               row      == int(match_position(target_position)[2]) - 1
               x_offset == col - b.x
               y_offset == row - b.y
               r        == can_move_to(grid_state, selected_block, b, x_offset, y_offset)
           IN  IF r # "free" THEN Report("move_to", a, "False", r, "none")
               ELSE LET nb == update_location(b, b.x + x_offset, b.y + y_offset)
                    IN  /\ obj' = [obj EXCEPT ![selected_block] = nb]
                        /\ grid_state' = draw_block(clean_up(grid_state, b), selected_block, nb)
                        /\ Done("move_to", a, "True", "none", "none")
                        /\ UNCHANGED <<block_objects, selected_blocks, selected_shape, file>>

\* Lines 393-403 of move_to on their own: the split of the matched answer,
\* the two conversions, the offsets and the verdict of can_move_to for the
\* selected block; nothing is moved. The answer is args.target_position.
excel_call ==
  /\ handler = "none"
  /\ Len(selected_blocks) = 1
  /\ match_position(args.target_position) # <<>>
  /\ \E m \in {match_position(args.target_position)} :
        LET col_str == m[1]
            row_str == m[2]
            col     == excel_col_to_index(col_str)
            row     == int(row_str) - 1
            b       == obj[selected_blocks[1]]
        IN  /\ handler' = "excel_col_to_index"
            /\ ret' = [col_str |-> col_str, row_str |-> row_str, col |-> col, row |-> row,
                       can_move_to |-> can_move_to(grid_state, selected_blocks[1], b,
                                                   col - b.x, row - b.y)]
  /\ UNCHANGED <<block_objects, obj, selected_blocks, selected_shape, grid_state, file,
                 warning, exc, args, steps>>

(* ---------------------------------------------------------------------- *)
(* duplicate (key c)                                                      *)
(* ---------------------------------------------------------------------- *)

\* A duplication loop that stops at the first step that is not legal.
RECURSIVE duplicate_steps_stop(_, _, _, _, _, _)
duplicate_steps_stop(src, direction, interval, i, sel, st) ==
  LET limit        == IF direction = "V" THEN GRID_HEIGHT ELSE GRID_WIDTH
      block_width  == MaxDx(src.block_shape) + 1
      block_height == MaxDy(src.block_shape) + 1
      new_x == IF direction = "H" THEN src.x + i * (interval + block_width) ELSE src.x
      new_y == IF direction = "V" THEN src.y + i * (interval + block_height) ELSE src.y
      pos   == IF direction = "V" THEN new_y ELSE new_x
  IN  IF i >= limit \/ st.full THEN st
      ELSE IF ~(pos < limit /\ is_legal_location(st.g, new_x, new_y, src.cell_name).ret)
      THEN st
      ELSE IF ~HasFree(st.bo, sel)
      THEN [st EXCEPT !.full = TRUE]
      ELSE LET id == NewId(st.bo, sel)
               b  == BlockObject(src.cell_name, new_x, new_y, src.block_shape, "R0")
           IN  duplicate_steps_stop(src, direction, interval, i + 1, sel,
                 [bo   |-> Append(st.bo, id),
                  ob   |-> [st.ob EXCEPT ![id] = b],
                  g    |-> draw_block(st.g, id, b),
                  full |-> FALSE])

\* duplicate_block: the loop over i of lines 292-297 (direction "V") or
\* 300-305 (direction "H"). st = [bo, ob, g, full].
RECURSIVE duplicate_steps(_, _, _, _, _, _)
duplicate_steps(src, direction, interval, i, sel, st) ==
  LET limit        == IF direction = "V" THEN GRID_HEIGHT ELSE GRID_WIDTH
      block_width  == MaxDx(src.block_shape) + 1
      block_height == MaxDy(src.block_shape) + 1
      new_x == IF direction = "H" THEN src.x + i * (interval + block_width) ELSE src.x
      new_y == IF direction = "V" THEN src.y + i * (interval + block_height) ELSE src.y
      pos   == IF direction = "V" THEN new_y ELSE new_x
  IN  IF i >= limit \/ st.full THEN st
      ELSE IF ~(pos < limit /\ is_legal_location(st.g, new_x, new_y, src.cell_name).ret)
      THEN duplicate_steps(src, direction, interval, i + 1, sel, st)
      ELSE IF ~HasFree(st.bo, sel)
      THEN [st EXCEPT !.full = TRUE]
      ELSE LET id == NewId(st.bo, sel)
               b  == BlockObject(src.cell_name, new_x, new_y, src.block_shape, "R0")
           IN  duplicate_steps(src, direction, interval, i + 1, sel,
                 [bo   |-> Append(st.bo, id),
                  ob   |-> [st.ob EXCEPT ![id] = b],
                  g    |-> draw_block(st.g, id, b),
                  full |-> FALSE])

\* A duplication whose copies inherit the orientation of the source.
duplicate_block_same_orientation(src, direction, interval, sel, st) ==
  LET r == IF direction \in {"V", "H"} THEN duplicate_steps(src, direction, interval, 1, sel, st)
           ELSE st
  IN  [r EXCEPT !.ob = [i \in Ids |->
                          IF i \in Range(r.bo) \ Range(st.bo)
                          THEN [r.ob[i] EXCEPT !.orientation = src.orientation]
                          ELSE r.ob[i]]]

duplicate_block(src, direction, interval, sel, st) ==
  IF direction \in {"V", "H"} THEN duplicate_steps(src, direction, interval, 1, sel, st)
  ELSE st

\* for block_object in self.selected_blocks: self.duplicate_block(...)
RECURSIVE duplicate_from(_, _, _, _, _)
duplicate_from(sel, k, direction, interval, st) ==
  IF k > Len(sel) \/ st.full THEN st
  ELSE duplicate_from(sel, k + 1, direction, interval,
         duplicate_block(st.ob[sel[k]], direction, interval, sel, st))

\* The answers of the two prompts: a cancelled direction dialog gives None,
\* a cancelled interval prompt gives None (here Cancelled); minvalue=0.
Directions == {"V", "H", NoShape}
Cancelled == -1
Intervals == {Cancelled, 0, 1}

duplicate_main(direction, interval) ==
  LET a == [direction |-> direction, interval |-> interval]
  IN  IF Len(selected_blocks) = 0 THEN Report("duplicate_main", a, "None", "NoSelection", "none")
      ELSE IF direction = NoShape \/ interval = Cancelled
      THEN Report("duplicate_main", a, "None", "none", "none")
      ELSE LET st == duplicate_from(selected_blocks, 1, direction, interval,
                       [bo |-> block_objects, ob |-> obj, g |-> grid_state, full |-> FALSE])
           IN  /\ ~st.full
               /\ block_objects' = st.bo
               /\ obj' = st.ob
               /\ grid_state' = st.g
               /\ Done("duplicate_main", a, "None", "none", "none")
               /\ UNCHANGED <<selected_blocks, selected_shape, file>>

(* ---------------------------------------------------------------------- *)
(* draw_block: the pin-side lines                                         *)
(* ---------------------------------------------------------------------- *)

\* The letters a pinside entry of the block csv is made of.
PinSides == {"T", "B", "L", "R"}

\* The edges of the block's rectangle on the canvas, whose y axis points
\* down: "Top" is the line from (llx, lly) to (urx, lly), "Bottom" the one
\* from (llx, ury) to (urx, ury), "Left" the one at llx, "Right" the one at urx.
\* The set of edges on which lines 713-733 create a line, for a block of the
\* given name and orientation whose shape has the given pin sides. The
\* "TSV" branch (lines 656-668) creates none, and there is no branch for R90
\* (lines 734-738 are commented out).
pin_lines(cell_name, orientation, pinside) ==
  IF cell_name = "TSV" THEN {}
  ELSE IF orientation = "R0"
  THEN (IF "T" \in pinside THEN {"Top"} ELSE {}) \cup (IF "B" \in pinside THEN {"Bottom"} ELSE {})
       \cup (IF "L" \in pinside THEN {"Left"} ELSE {}) \cup (IF "R" \in pinside THEN {"Right"} ELSE {})
  ELSE IF orientation = "MX"
  THEN (IF "B" \in pinside THEN {"Top"} ELSE {}) \cup (IF "T" \in pinside THEN {"Bottom"} ELSE {})
       \cup (IF "L" \in pinside THEN {"Left"} ELSE {}) \cup (IF "R" \in pinside THEN {"Right"} ELSE {})
  ELSE IF orientation = "MY"
  THEN (IF "T" \in pinside THEN {"Top"} ELSE {}) \cup (IF "B" \in pinside THEN {"Bottom"} ELSE {})
       \cup (IF "R" \in pinside THEN {"Left"} ELSE {}) \cup (IF "L" \in pinside THEN {"Right"} ELSE {})
  ELSE IF orientation = "R180"
  THEN (IF "B" \in pinside THEN {"Top"} ELSE {}) \cup (IF "T" \in pinside THEN {"Bottom"} ELSE {})
       \cup (IF "R" \in pinside THEN {"Left"} ELSE {}) \cup (IF "L" \in pinside THEN {"Right"} ELSE {})
  ELSE {}

\* draw_block on a block of the name, orientation and pin sides held in
\* args: what is recorded is the set of pin-side lines it creates.
draw_block_call ==
  /\ handler = "none"
  /\ handler' = "draw_block"
  /\ ret' = [lines |-> pin_lines(args.cell_name, args.orientation, args.pinside)]
  /\ UNCHANGED <<block_objects, obj, selected_blocks, selected_shape, grid_state, file,
                 warning, exc, args, steps>>

(* ---------------------------------------------------------------------- *)
(* save_to_file / load_from_file                                          *)
(* ---------------------------------------------------------------------- *)

\* A saved_db that drops the orientation of every block.
saved_db_R0(bo, ob) ==
  [k \in 1..Len(bo) |->
     [key         |-> bo[k],
      cell_name   |-> ob[bo[k]].cell_name,
      x           |-> ob[bo[k]].x,
      y           |-> ob[bo[k]].y,
      orientation |-> "R0"]]

\* saved_db[k] = v.data for k, v in block_objects.items(), written by
\* json.dumps: one record per block, in dict order, holding the fields of
\* data (the key becomes its decimal string, which load never reads; the
\* footprint and the bounding box are attributes, not data, and are not saved).
saved_db(bo, ob) ==
  [k \in 1..Len(bo) |->
     [key         |-> bo[k],
      cell_name   |-> ob[bo[k]].cell_name,
      x           |-> ob[bo[k]].x,
      y           |-> ob[bo[k]].y,
      orientation |-> ob[bo[k]].orientation]]

\* save_txt: block_objects[grid_state[j][i]] for every non-empty cell.
save_txt_raises(bo, g) ==
  \E x \in 0..(GRID_WIDTH - 1), y \in 0..(GRID_HEIGHT - 1) :
     g[x][y] # None /\ g[x][y] \notin Range(bo)

\* confirm: the answer to "File exists. Would you like to overwrite it?".
save_to_file(confirm) ==
  LET a == [confirm |-> confirm]
  IN  IF file.exists /\ ~confirm THEN Report("save_to_file", a, "None", "SaveFailed", "none")
      ELSE /\ file' = [exists |-> TRUE, db |-> saved_db(block_objects, obj)]
           /\ Done("save_to_file", a, "None", "Saved",
                   IF save_txt_raises(block_objects, grid_state) THEN "KeyError" ELSE "none")
           /\ UNCHANGED <<block_objects, obj, selected_blocks, selected_shape, grid_state>>

\* One of the two loops of lines 786-796 over restored_database.items():
\* blockage = TRUE loads the records named Blockage, FALSE the others.
\* st = [bo, ob, g, exc].
RECURSIVE load_from(_, _, _, _)
load_from(db, k, blockage, st) ==
  IF k > Len(db) \/ st.exc # "none" THEN st
  ELSE LET v == db[k]
       IN  IF (v.cell_name = "Blockage") # blockage
           THEN load_from(db, k + 1, blockage, st)
           ELSE IF v.cell_name \notin ShapeNames
           THEN [st EXCEPT !.exc = "KeyError"]
           ELSE LET id == NewId(st.bo, <<>>)
                    b  == BlockObject(v.cell_name, v.x, v.y, SHAPE_BUTTONS[v.cell_name],
                                      v.orientation)
                IN  load_from(db, k + 1, blockage,
                      [bo  |-> Append(st.bo, id),
                       ob  |-> [st.ob EXCEPT ![id] = b],
                       g   |-> draw_block(st.g, id, b),
                       exc |-> "none"])

\* load that rebuilds on top of the present grid instead of an empty one.
load_from_file_keep_grid ==
  IF ~file.exists THEN Report("load_from_file", NoArgs, "None", "LoadError", "none")
  ELSE LET s0 == [bo |-> <<>>, ob |-> [i \in Ids |-> NoObj], g |-> grid_state, exc |-> "none"]
           st == load_from(file.db, 1, FALSE, load_from(file.db, 1, TRUE, s0))
       IN  /\ block_objects' = st.bo
           /\ obj' = st.ob
           /\ grid_state' = st.g
           /\ selected_blocks' = <<>>
           /\ Done("load_from_file", NoArgs, "None",
                   IF st.exc = "none" THEN "Loaded" ELSE "none", st.exc)
           /\ UNCHANGED <<selected_shape, file>>

load_from_file ==
  IF ~file.exists THEN Report("load_from_file", NoArgs, "None", "LoadError", "none")
  ELSE LET s0 == [bo |-> <<>>, ob |-> [i \in Ids |-> NoObj], g |-> EmptyGrid, exc |-> "none"]
           st == load_from(file.db, 1, FALSE, load_from(file.db, 1, TRUE, s0))
       IN  /\ block_objects' = st.bo
           /\ obj' = st.ob
           /\ grid_state' = st.g
           /\ selected_blocks' = <<>>
           /\ Done("load_from_file", NoArgs, "None",
                   IF st.exc = "none" THEN "Loaded" ELSE "none", st.exc)
           /\ UNCHANGED <<selected_shape, file>>

(* ---------------------------------------------------------------------- *)
(* Specifications                                                         *)
(* ---------------------------------------------------------------------- *)

\* Every handler bound to a widget or a key, with every input.
Next ==
  \/ \E s \in ShapeNames : select_shape(s)
  \/ \E c \in ClickCells : Place(c[1], c[2])
  \/ \E c \in ClickCells : Delete(c[1], c[2])
  \/ \E c \in ClickCells : ChangeOrientation(c[1], c[2])
  \/ \E r \in DragRects : PlaceBlockage(r[1], r[2], r[3], r[4])
  \/ \E m \in {"Delete Region", "Delete Blockage"} :
     \E r \in DragRects : DeleteRegion(m, r[1], r[2], r[3], r[4])
  \/ \E m \in {"Select wi blockage", "Select wo blockage"} :
     \E r \in DragRects : Select(m, r[1], r[2], r[3], r[4])
  \/ Redraw
  \/ \E o \in MoveOffsets : move(o[1], o[2])
  \/ \E t \in MoveToInputs : move_to(t)
  \/ \E d \in Directions, n \in Intervals : duplicate_main(d, n)
  \/ swap_main
  \/ \E confirm \in BOOLEAN : save_to_file(confirm)
  \/ load_from_file

Spec == Init /\ [][Next]_vars

\* The specifications below run subsets of these handlers on subsets of
\* their inputs: every behaviour of SpecMove, SpecSwap, SpecFile,
\* SpecPlace, SpecDup, SpecMoveTo, SpecOrient, SpecRegion, SpecFill,
\* SpecNoSel, SpecBounds and SpecFrame is a behaviour of Spec. SpecLegal,
\* SpecCol and SpecPins apply one function to inputs drawn by their initial
\* predicate; SpecLoad starts with a placement file already on disk.

\* Region fill, region select, single delete, the four unit moves and the
\* redraw, on one-cell blocks.
FillRects == {<<0, 0, 0, 0>>, <<1, 1, 0, 0>>, <<0, 1, 0, 0>>, <<0, 0, 0, 1>>}
SelectRects == {<<0, GRID_WIDTH - 1, 0, GRID_HEIGHT - 1>>, <<0, 0, 0, 0>>, <<1, 1, 0, 0>>}
DeleteCells == {<<0, 0>>, <<1, 0>>}

NextMove ==
  \/ \E r \in FillRects : PlaceBlockage(r[1], r[2], r[3], r[4])
  \/ \E r \in SelectRects : Select("Select wi blockage", r[1], r[2], r[3], r[4])
  \/ \E c \in DeleteCells : Delete(c[1], c[2])
  \/ \E o \in MoveOffsets : move(o[1], o[2])
  \/ Redraw

SpecMove == Init /\ [][NextMove]_vars

\* is_legal_location called with every anchor from one cell before the
\* grid to one cell past it, every shape of the catalog, and every grid that
\* a region fill of at most MaxBlocks cells leaves behind.
GridCells == (0..(GRID_WIDTH - 1)) \X (0..(GRID_HEIGHT - 1))

\* The cells of S in the order the loops of lines 507-508 visit them.
CellIndex(c) == c[1] * GRID_HEIGHT + c[2]
CellSeq(S) ==
  [k \in 1..Cardinality(S) |->
     CHOOSE c \in S : Cardinality({d \in S : CellIndex(d) < CellIndex(c)}) = k - 1]

InitLegal ==
  \E S \in SUBSET GridCells :
     /\ Cardinality(S) <= MaxBlocks
     /\ LET st == place_blockage_from(CellSeq(S), 1, <<>>,
                    [bo |-> <<>>, ob |-> [i \in Ids |-> NoObj], g |-> EmptyGrid, full |-> FALSE])
        IN  /\ block_objects = st.bo
            /\ obj = st.ob
            /\ grid_state = st.g
     /\ selected_blocks = <<>>
     /\ selected_shape = NoShape
     /\ file = NoFile
     /\ handler = "none"
     /\ warning = "none"
     /\ exc = "none"
     /\ args = NoArgs
     /\ ret = "None"
     /\ steps = 0

AnchorXs == (-1)..GRID_WIDTH
AnchorYs == (-1)..GRID_HEIGHT

NextLegal ==
  \E x \in AnchorXs, y \in AnchorYs, shape \in ShapeNames, warn \in BOOLEAN :
     is_legal_call(x, y, shape, warn)

SpecLegal == InitLegal /\ [][NextLegal]_vars

\* Shape choice, single placement, a one-cell fill, region select and swap.
SwapShapes == {"A", "B", "C"}
SwapCells == {<<0, 0>>, <<0, 1>>, <<2, 0>>}
SwapRects == {<<0, GRID_WIDTH - 1, 0, GRID_HEIGHT - 1>>, <<0, 1, 0, 0>>}

NextSwap ==
  \/ \E s \in SwapShapes : select_shape(s)
  \/ \E c \in SwapCells : Place(c[1], c[2])
  \/ PlaceBlockage(1, 1, 1, 1)
  \/ \E r \in SwapRects : Select("Select wi blockage", r[1], r[2], r[3], r[4])
  \/ swap_main

SpecSwap == Init /\ [][NextSwap]_vars

\* Placement, region fill, orientation change, a batch move, save and load.
FileShapes == {"A", "C"}
FileCells == {<<0, 0>>, <<0, 1>>, <<1, 0>>}
FileRects == {<<0, 1, 0, 0>>}

NextFile ==
  \/ \E s \in FileShapes : select_shape(s)
  \/ \E c \in FileCells : Place(c[1], c[2])
  \/ \E c \in FileCells : ChangeOrientation(c[1], c[2])
  \/ \E r \in FileRects : PlaceBlockage(r[1], r[2], r[3], r[4])
  \/ Select("Select wi blockage", 0, GRID_WIDTH - 1, 0, GRID_HEIGHT - 1)
  \/ move(1, 0)
  \/ \E confirm \in BOOLEAN : save_to_file(confirm)
  \/ load_from_file

SpecFile == Init /\ [][NextFile]_vars

\* Shape choice, single placement at every click position, single delete.
PlaceShapes == {"A", "C", "Blockage"}

NextPlace ==
  \/ \E s \in PlaceShapes : select_shape(s)
  \/ \E c \in ClickCells : Place(c[1], c[2])
  \/ \E c \in DeleteCells : Delete(c[1], c[2])

SpecPlace == Init /\ [][NextPlace]_vars

\* Shape choice, single placement, orientation change, single delete,
\* region select, a move down and duplication in both directions.
DupShapes == {"C", "Blockage"}
DupCells == {<<0, 0>>, <<1, 0>>}
DupRects == {<<0, 0, 0, 0>>, <<1, 1, 0, 0>>, <<0, GRID_WIDTH - 1, 0, GRID_HEIGHT - 1>>}

NextDup ==
  \/ \E s \in DupShapes : select_shape(s)
  \/ \E c \in DupCells : Place(c[1], c[2])
  \/ \E c \in DupCells : ChangeOrientation(c[1], c[2])
  \/ \E c \in DupCells : Delete(c[1], c[2])
  \/ \E r \in DupRects : Select("Select wi blockage", r[1], r[2], r[3], r[4])
  \/ move(0, 1)
  \/ \E direction \in Directions, interval \in Intervals : duplicate_main(direction, interval)

SpecDup == Init /\ [][NextDup]_vars

\* Shape choice, single placement, single delete, region select and move-to
\* with every answer of MoveToInputs.
MoveToShapes == {"A", "Blockage"}
MoveToCells == {<<0, 0>>, <<2, 0>>}
MoveToRects == {<<0, 0, 0, 0>>, <<0, GRID_WIDTH - 1, 0, GRID_HEIGHT - 1>>}

NextMoveTo ==
  \/ \E s \in MoveToShapes : select_shape(s)
  \/ \E c \in MoveToCells : Place(c[1], c[2])
  \/ Delete(0, 0)
  \/ \E r \in MoveToRects : Select("Select wi blockage", r[1], r[2], r[3], r[4])
  \/ \E target_position \in MoveToInputs : move_to(target_position)

SpecMoveTo == Init /\ [][NextMoveTo]_vars

\* The conversions of move_to applied to every column string of at most
\* MaxLen letters in both cases (with row "1") and every row string of at
\* most MaxLen digits (with column "A"), for a one-cell block at (0,0) that
\* is selected.
Letters == Range(UpperCase) \cup Range(LowerCase)
ColStrings == UNION {[1..n -> Letters] : n \in 1..MaxLen}
RowStrings == UNION {[1..n -> Range(DigitChars)] : n \in 1..MaxLen}
TargetInputs ==
  {c \o <<"1">> : c \in ColStrings} \cup {<<"A">> \o r : r \in RowStrings}

InitCol ==
  /\ LET st == place_blockage_from(<<<<0, 0>>>>, 1, <<>>,
                 [bo |-> <<>>, ob |-> [i \in Ids |-> NoObj], g |-> EmptyGrid, full |-> FALSE])
     IN  /\ block_objects = st.bo
         /\ obj = st.ob
         /\ grid_state = st.g
         /\ selected_blocks = st.bo
  /\ selected_shape = NoShape
  /\ file = NoFile
  /\ handler = "none"
  /\ warning = "none"
  /\ exc = "none"
  /\ args \in {[target_position |-> t] : t \in TargetInputs}
  /\ ret = "None"
  /\ steps = 0

NextCol == excel_call

SpecCol == InitCol /\ [][NextCol]_vars

\* Shape choice, single placement, region select, a move right and
\* orientation change at cells inside, at the edge of and past the grid.
OrientShapes == {"C", "Blockage"}
OrientPlaceCells == {<<0, 0>>, <<1, 0>>}
OrientCells == {<<0, 0>>, <<1, 1>>, <<2, 0>>, <<GRID_WIDTH, 0>>, <<GRID_WIDTH + 1, 0>>}

NextOrient ==
  \/ \E s \in OrientShapes : select_shape(s)
  \/ \E c \in OrientPlaceCells : Place(c[1], c[2])
  \/ Select("Select wi blockage", 0, GRID_WIDTH - 1, 0, GRID_HEIGHT - 1)
  \/ move(1, 0)
  \/ \E c \in OrientCells : ChangeOrientation(c[1], c[2])

SpecOrient == Init /\ [][NextOrient]_vars

\* draw_block applied to a block of every orientation whose shape has any
\* set of pin sides, for an ordinary shape name and for the reserved "TSV".
PinNames == {"A", "TSV"}

InitPins ==
  /\ block_objects = <<>>
  /\ obj = [i \in Ids |-> NoObj]
  /\ selected_blocks = <<>>
  /\ selected_shape = NoShape
  /\ grid_state = EmptyGrid
  /\ file = NoFile
  /\ handler = "none"
  /\ warning = "none"
  /\ exc = "none"
  /\ args \in {[cell_name |-> n, orientation |-> o, pinside |-> p] :
                 n \in PinNames, o \in Range(Orientations), p \in SUBSET PinSides}
  /\ ret = "None"
  /\ steps = 0

NextPins == draw_block_call

SpecPins == InitPins /\ [][NextPins]_vars

\* Region fill, single placement of a two-cell shape, region select, a move
\* right and region deletion in both modes.
RegionFillRects == {<<0, 1, 0, 0>>, <<0, 0, 1, 1>>}
RegionRects == {<<1, 1, 0, 0>>, <<0, 0, 0, 0>>, <<1, GRID_WIDTH, 0, GRID_HEIGHT>>}

NextRegion ==
  \/ \E r \in RegionFillRects : PlaceBlockage(r[1], r[2], r[3], r[4])
  \/ select_shape("C")
  \/ Place(2, 0)
  \/ Select("Select wi blockage", 0, GRID_WIDTH - 1, 0, GRID_HEIGHT - 1)
  \/ move(1, 0)
  \/ \E mode \in {"Delete Region", "Delete Blockage"}, r \in RegionRects :
        DeleteRegion(mode, r[1], r[2], r[3], r[4])

SpecRegion == Init /\ [][NextRegion]_vars

\* Single placement of a two-cell shape, single delete and region fill over
\* rectangles inside the grid and reaching past its right and bottom edge.
FillDragRects ==
  {<<0, 1, 0, 0>>, <<1, GRID_WIDTH, 0, 0>>, <<0, 0, 0, GRID_HEIGHT>>,
   <<GRID_WIDTH - 1, GRID_WIDTH, GRID_HEIGHT - 1, GRID_HEIGHT>>, <<1, 2, 1, 1>>}

NextFill ==
  \/ select_shape("A")
  \/ \E c \in {<<0, 0>>, <<1, 1>>} : Place(c[1], c[2])
  \/ \E c \in DeleteCells : Delete(c[1], c[2])
  \/ \E r \in FillDragRects : PlaceBlockage(r[1], r[2], r[3], r[4])

SpecFill == Init /\ [][NextFill]_vars

\* Loading a placement file that was not written under the current catalog:
\* the file on disk holds up to MaxLen records, each naming a catalog shape
\* or a shape the catalog does not have, at anchors inside the grid.
LoadFiles ==
  LET LoadRecords ==
        {[key |-> 0, cell_name |-> n, x |-> c[1], y |-> c[2], orientation |-> "R0"] :
           n \in {"A", "Blockage", "X"}, c \in {<<0, 0>>, <<1, 1>>}}
  IN  {[k \in DOMAIN s |-> [s[k] EXCEPT !.key = k]] :
         s \in UNION {[1..n -> LoadRecords] : n \in 1..MaxLen}}

InitLoad ==
  /\ block_objects = <<>>
  /\ obj = [i \in Ids |-> NoObj]
  /\ selected_blocks = <<>>
  /\ selected_shape = NoShape
  /\ grid_state = EmptyGrid
  /\ file \in {[exists |-> TRUE, db |-> db] : db \in LoadFiles}
  /\ handler = "none"
  /\ warning = "none"
  /\ exc = "none"
  /\ args = NoArgs
  /\ ret = "None"
  /\ steps = 0

NextLoad ==
  \/ select_shape("Blockage")
  \/ Place(2, 0)
  \/ Select("Select wi blockage", 0, GRID_WIDTH - 1, 0, GRID_HEIGHT - 1)
  \/ load_from_file

SpecLoad == InitLoad /\ [][NextLoad]_vars

\* Move, duplicate and swap keys pressed with and without a selection, on
\* grids holding two-cell blocks; the selection is emptied by a region
\* select over a free cell.
NextNoSel ==
  \/ \E s \in {"A", "B"} : select_shape(s)
  \/ \E c \in {<<0, 0>>, <<0, 1>>} : Place(c[1], c[2])
  \/ \E r \in {<<0, 0, 0, 0>>, <<0, GRID_WIDTH - 1, 0, GRID_HEIGHT - 1>>,
               <<GRID_WIDTH - 1, GRID_WIDTH - 1, 0, GRID_HEIGHT - 1>>} :
        Select("Select wi blockage", r[1], r[2], r[3], r[4])
  \/ \E o \in {<<1, 0>>, <<0, 1>>} : move(o[1], o[2])
  \/ \E direction \in Directions, interval \in Intervals : duplicate_main(direction, interval)
  \/ swap_main

SpecNoSel == Init /\ [][NextNoSel]_vars

\* Every operation that commits an anchor, without a load: single placement
\* of two-cell shapes at and past the edges, region fill over the corner and
\* past it, unit moves in the four directions, move-to with targets inside
\* and outside the grid, and duplication in both directions.
NextBounds ==
  \/ \E s \in {"A", "C"} : select_shape(s)
  \/ \E c \in {<<0, 0>>, <<GRID_WIDTH - 1, 0>>, <<1, GRID_HEIGHT - 1>>, <<GRID_WIDTH, 0>>} :
        Place(c[1], c[2])
  \/ PlaceBlockage(GRID_WIDTH - 1, GRID_WIDTH, GRID_HEIGHT - 1, GRID_HEIGHT)
  \/ \E r \in {<<0, 0, 0, 0>>, <<0, GRID_WIDTH - 1, 0, GRID_HEIGHT - 1>>} :
        Select("Select wi blockage", r[1], r[2], r[3], r[4])
  \/ \E o \in MoveOffsets : move(o[1], o[2])
  \/ \E target_position \in {<<"C", "1">>, <<"B", "2">>, <<"D", "1">>, <<"A", "3">>} :
        move_to(target_position)
  \/ \E direction \in {"V", "H"} : duplicate_main(direction, 0)

SpecBounds == Init /\ [][NextBounds]_vars

\* Move, move-to, swap and orientation change on grids where some blocks
\* are selected and others are not.
NextFrame ==
  \/ \E s \in {"A", "B"} : select_shape(s)
  \/ \E c \in {<<0, 0>>, <<0, 1>>} : Place(c[1], c[2])
  \/ PlaceBlockage(GRID_WIDTH - 1, GRID_WIDTH - 1, 0, 0)
  \/ \E r \in {<<0, 0, 0, 0>>, <<0, GRID_WIDTH - 1, 0, GRID_HEIGHT - 1>>} :
        Select("Select wi blockage", r[1], r[2], r[3], r[4])
  \/ \E o \in {<<1, 0>>, <<0, 1>>} : move(o[1], o[2])
  \/ \E target_position \in {<<"B", "2">>, <<"A", "1">>, <<"C", "1">>} : move_to(target_position)
  \/ swap_main
  \/ \E c \in {<<0, 0>>, <<GRID_WIDTH - 1, 0>>} : ChangeOrientation(c[1], c[2])

SpecFrame == Init /\ [][NextFrame]_vars

(* ---------------------------------------------------------------------- *)
(* Claims                                                                 *)
(* ---------------------------------------------------------------------- *)

Placed == Range(block_objects)

\* C1: in every reachable state no two distinct blocks of the block
\* collection have translated footprints that share a grid cell.
C1_NoOverlap ==
  \A i \in Placed, j \in Placed :
     i # j => Cells(obj[i]) \cap Cells(obj[j]) = {}

\* C2: in every reachable state every footprint cell of every block of the
\* block collection is marked in grid_state with that block's identity.
C2_FootprintMarked ==
  \A i \in Placed : \A c \in Cells(obj[i]) :
     InGrid(c[1], c[2]) /\ grid_state[c[1]][c[2]] = i

\* C3: in every reachable state every non-empty grid_state cell holds the
\* identity of a block of the block collection whose translated footprint
\* includes that cell.
C3_NoOrphan ==
  \A c \in GridCells :
     grid_state[c[1]][c[2]] # None =>
        /\ grid_state[c[1]][c[2]] \in Placed
        /\ c \in Cells(obj[grid_state[c[1]][c[2]]])

\* Some footprint cell of the shape anchored at (x, y) lies outside the
\* grid or is occupied in g.
SomeCellIllegal(g, x, y, shape) ==
  \E k \in DOMAIN SHAPE_BUTTONS[shape] :
     LET cx == x + SHAPE_BUTTONS[shape][k][1]
         cy == y + SHAPE_BUTTONS[shape][k][2]
     IN  ~InGrid(cx, cy) \/ g[cx][cy] # None

\* C4: for every anchor, negative and past-the-edge ones included, every
\* shape of the catalog and every grid, is_legal_location returns False if
\* and only if some footprint cell is outside the grid or occupied, returns
\* True otherwise, and never indexes the grid outside its bounds (neither an
\* IndexError nor a negative index).
C4_LegalIff ==
  handler = "is_legal_location" =>
     /\ exc = "none"
     /\ ret \in {"True", "False"}
     /\ (ret = "False") <=> SomeCellIllegal(grid_state, args.x, args.y, args.shape)

\* A call at a negative anchor, and one whose footprint ends one cell past
\* the right edge, answered False without an exception.
C4_Witness ==
  /\ handler = "is_legal_location"
  /\ ret = "False"
  /\ exc = "none"
  /\ \/ args.x < 0
     \/ args.x + MaxDx(SHAPE_BUTTONS[args.shape]) = GRID_WIDTH
  /\ block_objects # <<>>

\* A step of the move handler on a non-empty selection.
MoveStep == handler' = "move" /\ steps' = steps + 1 /\ Len(selected_blocks) > 0

\* Every selected block's anchor is shifted by (dx, dy).
ShiftedBy(dx, dy) ==
  \A i \in Range(selected_blocks) :
     obj'[i].x = obj[i].x + dx /\ obj'[i].y = obj[i].y + dy

\* The grid after the step shows every selected block at its new position
\* and nowhere else.
GridReflectsSelection ==
  \A i \in Range(selected_blocks) :
     \A c \in GridCells : (grid_state'[c[1]][c[2]] = i) <=> (c \in Cells(obj'[i]))

\* C5: a batch move over a non-empty selection either shifts every selected
\* block's anchor by the offset and leaves a grid that reflects exactly the
\* new positions, or changes no anchor and leaves the grid unchanged.
C5_MoveAtomic ==
  [][MoveStep =>
       \/ ShiftedBy(args'.x_offset, args'.y_offset) /\ GridReflectsSelection
       \/ obj' = obj /\ grid_state' = grid_state]_vars

\* The footprint of some selected block, shifted by (dx, dy), has a cell
\* outside the grid or a cell of the footprint of a placed block that is
\* not selected.
Blocked(dx, dy) ==
  \E i \in Range(selected_blocks) :
     \E c \in Cells(obj[i]) :
        \/ ~InGrid(c[1] + dx, c[2] + dy)
        \/ \E j \in Placed \ Range(selected_blocks) :
              <<c[1] + dx, c[2] + dy>> \in Cells(obj[j])

\* C6: a batch move is rejected, and no block's position changes, whenever
\* the shifted footprint of a selected block has a cell outside the grid or
\* a cell covered by a placed block that is not selected.
C6_MoveRejected ==
  [][MoveStep /\ Blocked(args'.x_offset, args'.y_offset) =>
       ret' = "False" /\ obj' = obj]_vars

\* A step of the swap handler.
SwapStep == handler' = "swap_main" /\ steps' = steps + 1

\* The two shapes of the catalog cover the same cells.
SameFootprint(name, shape) ==
  /\ name \in ShapeNames
  /\ shape \in ShapeNames
  /\ Range(SHAPE_BUTTONS[name]) = Range(SHAPE_BUTTONS[shape])

C8_SingleSelectionOnly ==
  [][SwapStep /\ Len(selected_blocks) # 1 =>
       /\ warning' \in {"NoSelection", "InvalidSelectionCount"}
       /\ \A i \in Ids : obj'[i].cell_name = obj[i].cell_name]_vars

\* C8 as the code has it: swap is a batch operation. With an empty selection
\* it shows the no-selection warning, with no target shape chosen the
\* no-target warning, and changes nothing; otherwise every selected block,
\* however many there are, takes the target's name if its footprint equals
\* the target's and keeps its name if not, the mismatch warning is shown
\* exactly when some selected block mismatches, and no other block changes.
C8_SwapIsBatch ==
  [][SwapStep =>
       IF Len(selected_blocks) = 0
       THEN warning' = "NoSelection" /\ obj' = obj /\ grid_state' = grid_state
       ELSE IF selected_shape = NoShape
       THEN warning' = "NoTargetShape" /\ obj' = obj /\ grid_state' = grid_state
       ELSE /\ \A i \in Range(selected_blocks) :
                  obj'[i].cell_name =
                    IF SameFootprint(obj[i].cell_name, selected_shape)
                    THEN selected_shape ELSE obj[i].cell_name
            /\ \A i \in Ids \ Range(selected_blocks) : obj'[i] = obj[i]
            /\ (warning' = "ShapeMismatch") <=>
                  \E i \in Range(selected_blocks) :
                     ~SameFootprint(obj[i].cell_name, selected_shape)
            /\ warning' \in {"ShapeMismatch", "none"}]_vars

\* After a swap over two selected blocks: one of them bears the target's
\* name, the other, of another dimension, kept its own and the mismatch
\* warning was shown.
C8_Witness ==
  /\ handler = "swap_main"
  /\ warning = "ShapeMismatch"
  /\ Len(selected_blocks) >= 2
  /\ \E i \in Range(selected_blocks) : obj[i].cell_name = selected_shape
  /\ \E i \in Range(selected_blocks) : ~SameFootprint(obj[i].cell_name, selected_shape)

\* The (shape_name, x, y, orientation) tuple of a block or of a file record.
BlockTuple(b) == <<b.cell_name, b.x, b.y, b.orientation>>

CountPlaced(t) == Cardinality({i \in Placed : BlockTuple(obj[i]) = t})
CountFile(t) == Cardinality({k \in DOMAIN file.db : BlockTuple(file.db[k]) = t})

\* The block collection and the file hold the same collection of tuples.
SameTuples ==
  \A t \in {BlockTuple(obj[i]) : i \in Placed}
             \cup {BlockTuple(file.db[k]) : k \in DOMAIN file.db} :
     CountPlaced(t) = CountFile(t)

\* The grid is the projection of the block collection: a cell no block
\* covers is empty, a covered cell holds the identity of a block covering it.
GridIsProjection ==
  \A c \in GridCells :
     IF \E i \in Placed : c \in Cells(obj[i])
     THEN /\ grid_state[c[1]][c[2]] \in Placed
          /\ c \in Cells(obj[grid_state[c[1]][c[2]]])
     ELSE grid_state[c[1]][c[2]] = None

\* C9: a save writes the (shape_name, x, y, orientation) tuples of the block
\* collection, and a load of the saved file yields a block collection with
\* the same collection of tuples (order and identities aside) and a grid
\* that is the projection of those blocks.
C9_SaveLoadRoundTrip ==
  /\ handler = "save_to_file" /\ warning = "Saved" => SameTuples
  /\ handler = "load_from_file" /\ warning = "Loaded" => SameTuples /\ GridIsProjection

\* After a load of a file that holds at least two blocks, one of them
\* rotated.
C9_Witness ==
  /\ handler = "load_from_file"
  /\ warning = "Loaded"
  /\ Len(block_objects) >= 2
  /\ \E i \in Placed : obj[i].orientation # "R0"

\* A step of the Place handler with a shape chosen.
PlaceStep == handler' = "Place" /\ steps' = steps + 1 /\ selected_shape # NoShape

\* C10: a single placement of the selected shape at the clicked cell adds,
\* if no footprint cell is occupied or out of bounds, exactly one block with
\* that anchor, orientation R0 and its footprint cells marked with it, and
\* changes nothing else; if some footprint cell is occupied or out of bounds
\* no block is created and block collection and grid are unchanged.
C10_PlaceContract ==
  [][PlaceStep =>
       IF ~SomeCellIllegal(grid_state, args'.x, args'.y, selected_shape)
       THEN /\ Len(block_objects') = Len(block_objects) + 1
            /\ SubSeq(block_objects', 1, Len(block_objects)) = block_objects
            /\ LET n == block_objects'[Len(block_objects')]
               IN  /\ n \notin Placed
                   /\ obj'[n].cell_name = selected_shape
                   /\ obj'[n].x = args'.x
                   /\ obj'[n].y = args'.y
                   /\ obj'[n].orientation = "R0"
                   /\ obj'[n].block_shape = SHAPE_BUTTONS[selected_shape]
                   /\ \A c \in GridCells :
                         grid_state'[c[1]][c[2]] =
                           IF c \in Cells(obj'[n]) THEN n ELSE grid_state[c[1]][c[2]]
            /\ \A i \in Placed : obj'[i] = obj[i]
       ELSE /\ block_objects' = block_objects
            /\ obj' = obj
            /\ grid_state' = grid_state]_vars

\* The example of the specification: a 2x1 shape is placed at (0,0), a
\* second placement at (1,0) is refused and the first block is still the
\* only one.
C10_Witness ==
  /\ handler = "Place"
  /\ warning = "InvalidPlacement"
  /\ args = Click(1, 0)
  /\ selected_shape = "A"
  /\ Len(block_objects) = 1
  /\ BlockTuple(obj[block_objects[1]]) = <<"A", 0, 0, "R0">>
  /\ grid_state[0][0] = block_objects[1]
  /\ grid_state[1][0] = block_objects[1]

\* A step of the duplicate handler with a selection, a direction chosen and
\* an interval entered.
DupStep ==
  /\ handler' = "duplicate_main"
  /\ steps' = steps + 1
  /\ Len(selected_blocks) > 0
  /\ args'.direction \in {"V", "H"}
  /\ args'.interval >= 0

\* The blocks a step adds to the collection.
Created == Range(block_objects') \ Placed

\* The extent of a block along an axis: the number of distinct columns
\* (rows) of its footprint.
ExtentX(b) == Cardinality({b.block_shape[k][1] : k \in DOMAIN b.block_shape})
ExtentY(b) == Cardinality({b.block_shape[k][2] : k \in DOMAIN b.block_shape})

\* The anchor of step i: start + i * (extent + interval) along the axis.
StepAnchor(b, direction, interval, i) ==
  IF direction = "V" THEN <<b.x, b.y + i * (ExtentY(b) + interval)>>
  ELSE <<b.x + i * (ExtentX(b) + interval), b.y>>

\* Every step whose anchor can still lie inside the grid.
StepRange == 1..(GRID_WIDTH + GRID_HEIGHT)

\* C11: duplicating a selected block of extent e along the chosen axis with
\* interval k >= 0 creates a new block at exactly the anchors
\* start + i * (e + k), i >= 1, whose footprint is inside the grid and free,
\* and at no other position; a step that is not legal is skipped and the
\* later steps are still probed. With several blocks selected an anchor that
\* was free before the step has, afterwards, a footprint cell held by a
\* created block (its own duplicate or the one that took the cell first).
C11_DuplicateAnchors ==
  [][DupStep =>
       /\ SubSeq(block_objects', 1, Len(block_objects)) = block_objects
       /\ \A n \in Created :
             \E s \in Range(selected_blocks), i \in StepRange :
                /\ <<obj'[n].x, obj'[n].y>> = StepAnchor(obj[s], args'.direction, args'.interval, i)
                /\ obj'[n].cell_name = obj[s].cell_name
                /\ obj'[n].block_shape = obj[s].block_shape
                /\ ~SomeCellIllegal(grid_state, obj'[n].x, obj'[n].y, obj[s].cell_name)
       /\ \A s \in Range(selected_blocks), i \in StepRange :
             LET a == StepAnchor(obj[s], args'.direction, args'.interval, i)
                 b == [obj[s] EXCEPT !.x = a[1], !.y = a[2]]
             IN  ~SomeCellIllegal(grid_state, a[1], a[2], obj[s].cell_name) =>
                   /\ \E c \in Cells(b) : grid_state'[c[1]][c[2]] \in Created
                   /\ Len(selected_blocks) = 1 =>
                        \E n \in Created :
                           /\ <<obj'[n].x, obj'[n].y>> = a
                           /\ obj'[n].block_shape = obj[s].block_shape
       /\ \A c \in GridCells :
             grid_state'[c[1]][c[2]] =
               IF \E n \in Created : c \in Cells(obj'[n])
               THEN CHOOSE n \in Created : c \in Cells(obj'[n])
               ELSE grid_state[c[1]][c[2]]]_vars

\* The example of the specification on the 3-column grid: a one-cell block
\* at (0,0), duplicated horizontally with interval 0, gives exactly
\* GRID_WIDTH - 1 new blocks at x = 1 .. GRID_WIDTH - 1.
C11_Witness ==
  /\ handler = "duplicate_main"
  /\ args = [direction |-> "H", interval |-> 0]
  /\ Len(selected_blocks) = 1
  /\ BlockTuple(obj[selected_blocks[1]]) = <<"Blockage", 0, 0, "R0">>
  /\ Len(block_objects) = GRID_WIDTH
  /\ {BlockTuple(obj[n]) : n \in Placed} =
       {<<"Blockage", x, 0, "R0">> : x \in 0..(GRID_WIDTH - 1)}

\* A step of a handler that acts on the block at the clicked cell or on the
\* selection.
ActsOn(h) == handler' = h /\ steps' = steps + 1

\* The block the click of the step hits, if any.
Clicked ==
  IF InGrid(args'.x, args'.y) /\ grid_state[args'.x][args'.y] # None
  THEN {grid_state[args'.x][args'.y]}
  ELSE {}

\* C12: every block created by duplication has an identity distinct from
\* the source and from every other block, the source's shape name and
\* footprint and orientation R0 whatever the source's orientation; the
\* source blocks and every other block are unchanged. A later move, delete
\* or orientation change acts only on the blocks it is applied to, so
\* applied to a duplicate it leaves the source as it was.
C12_DuplicateIsFresh ==
  [][/\ DupStep =>
          /\ Cardinality(Range(block_objects')) = Len(block_objects')
          /\ \A n \in Created :
                /\ n \notin Range(selected_blocks)
                /\ obj'[n].orientation = "R0"
                /\ \E s \in Range(selected_blocks) :
                      /\ obj'[n].cell_name = obj[s].cell_name
                      /\ obj'[n].block_shape = obj[s].block_shape
          /\ \A s \in Placed \cup Range(selected_blocks) : obj'[s] = obj[s]
          /\ selected_blocks' = selected_blocks
     /\ ActsOn("move") =>
          \A i \in Placed \ Range(selected_blocks) : obj'[i] = obj[i]
     /\ ActsOn("Delete") =>
          /\ Placed \ Range(block_objects') \subseteq Clicked
          /\ \A i \in Range(block_objects') : obj'[i] = obj[i]
     /\ ActsOn("ChangeOrientation") =>
          \A i \in Placed \ Clicked : obj'[i] = obj[i]]_vars

\* A block turned to MX has been duplicated: the copy is a second block of
\* the same shape in orientation R0 and the source is still MX.
C12_Witness ==
  /\ handler = "duplicate_main"
  /\ Len(selected_blocks) = 1
  /\ Len(block_objects) = 2
  /\ block_objects[1] = selected_blocks[1]
  /\ block_objects[2] # block_objects[1]
  /\ obj[block_objects[1]].orientation = "MX"
  /\ obj[block_objects[2]].orientation = "R0"
  /\ obj[block_objects[2]].cell_name = obj[block_objects[1]].cell_name

\* A move-to step with one block selected and an answer of the form
\* letters-then-digits.
MoveToStep ==
  /\ ActsOn("move_to")
  /\ Len(selected_blocks) = 1
  /\ args'.target_position # <<>>
  /\ match_position(args'.target_position) # <<>>

\* The cell the answer of the step names.
Target ==
  LET m == match_position(args'.target_position)
  IN  <<excel_col_to_index(m[1]), int(m[2]) - 1>>

\* C13: move-to moves the selected block exactly when every footprint cell,
\* shifted to the target anchor, is inside the grid and is free or holds the
\* moved block itself; then the anchor is the target cell, the new cells
\* hold the block, the old cells not covered again are empty and nothing
\* else changes; otherwise anchor and grid are unchanged.
C13_MoveToSafe ==
  [][MoveToStep =>
       \A t \in {Target} :
       \A new_cells \in {Cells([obj[selected_blocks[1]] EXCEPT !.x = t[1], !.y = t[2]])} :
       LET id == selected_blocks[1]
           b  == obj[id]
           old_cells == Cells(b)
       IN  IF \A c \in new_cells :
                 InGrid(c[1], c[2]) /\ grid_state[c[1]][c[2]] \in {None, id}
           THEN /\ ret' = "True"
                /\ obj'[id].x = t[1]
                /\ obj'[id].y = t[2]
                /\ obj'[id].cell_name = b.cell_name
                /\ obj'[id].orientation = b.orientation
                /\ obj'[id].block_shape = b.block_shape
                /\ \A i \in Ids \ {id} : obj'[i] = obj[i]
                /\ block_objects' = block_objects
                /\ \A c \in GridCells :
                      grid_state'[c[1]][c[2]] =
                        IF c \in new_cells THEN id
                        ELSE IF c \in old_cells THEN None
                        ELSE grid_state[c[1]][c[2]]
           ELSE /\ ret' = "False"
                /\ warning' \in {"OutOfBounds", "CellOccupied"}
                /\ obj' = obj
                /\ block_objects' = block_objects
                /\ grid_state' = grid_state]_vars

\* The 2x1 block placed at (0,0) has been moved to "B1": it is anchored at
\* (1,0), covers (1,0), which it covered before, and (2,0), and (0,0) is
\* empty.
C13_Witness ==
  /\ handler = "move_to"
  /\ ret = "True"
  /\ args = [target_position |-> <<"B", "1">>]
  /\ Len(block_objects) = 1
  /\ selected_blocks = block_objects
  /\ BlockTuple(obj[block_objects[1]]) = <<"A", 1, 0, "R0">>
  /\ grid_state[0][0] = None
  /\ grid_state[1][0] = block_objects[1]
  /\ grid_state[2][0] = block_objects[1]

\* C14: move-to handles one block only: whenever the selection does not
\* hold exactly one block (none, or two or more) the handler returns False
\* with the one-selected-block warning whatever would have been answered to
\* the prompt, and no block, no grid cell and no selection changes; the
\* warning is shown in no other case.
C14_MoveToSingleOnly ==
  [][ActsOn("move_to") =>
       /\ Len(selected_blocks) # 1 =>
            /\ ret' = "False"
            /\ warning' = "InvalidSelectionCount"
            /\ exc' = "none"
            /\ UNCHANGED <<block_objects, obj, selected_blocks, grid_state>>
       /\ warning' = "InvalidSelectionCount" => Len(selected_blocks) # 1]_vars

\* Two blocks are selected, cell (1,0) between them is free, and a move-to
\* that would have been answered "B1" has been refused.
C14_Witness ==
  /\ handler = "move_to"
  /\ warning = "InvalidSelectionCount"
  /\ ret = "False"
  /\ args = [target_position |-> <<"B", "1">>]
  /\ Len(selected_blocks) = 2
  /\ grid_state[1][0] = None
  /\ \A i \in Range(selected_blocks) : obj[i].cell_name = "Blockage"

\* The place of a letter in the alphabet, whatever its case: A, a -> 1.
LetterRank(c) == CHOOSE i \in DOMAIN UpperCase : c = UpperCase[i] \/ c = LowerCase[i]

Upper(s) == [k \in DOMAIN s |-> UpperCase[LetterRank(s[k])]]

RECURSIVE Pow(_, _)
Pow(b, n) == IF n = 0 THEN 1 ELSE b * Pow(b, n - 1)

RECURSIVE SumTo(_, _)
SumTo(f, n) == IF n = 0 THEN 0 ELSE f[n] + SumTo(f, n - 1)

\* The bijective base-26 value of a column string: the letter at place k
\* from the left weighs rank * 26^(length - k); A..Z are 1..26.
ColumnNumber(s) ==
  SumTo([k \in DOMAIN s |-> LetterRank(s[k]) * Pow(26, Len(s) - k)], Len(s))

\* The decimal value of a digit string.
RowNumber(s) ==
  SumTo([k \in DOMAIN s |-> ((CHOOSE i \in DOMAIN DigitChars : DigitChars[i] = s[k]) - 1)
                             * Pow(10, Len(s) - k)], Len(s))

\* The column that follows an upper-case column string in a spreadsheet:
\* A, B, .., Z, AA, AB, .., AZ, BA, ..
RECURSIVE NextColumn(_)
NextColumn(s) ==
  IF Len(s) = 0 THEN <<"A">>
  ELSE IF s[Len(s)] # "Z"
  THEN [s EXCEPT ![Len(s)] = UpperCase[LetterRank(s[Len(s)]) + 1]]
  ELSE Append(NextColumn(SubSeq(s, 1, Len(s) - 1)), "A")

\* C15: the column letters are converted to a 0-based column by bijective
\* base-26 positional reading, the same for both cases of a letter (A=0,
\* Z=25, AA=26, AZ=51, BA=52); the column that follows in spreadsheet order
\* gets the next index, so the conversion is strictly increasing in that
\* order; the 1-based row r becomes r - 1, and row "0" becomes -1, which
\* can_move_to refuses as out of bounds.
C15_ColumnConversion ==
  handler = "excel_col_to_index" =>
    \A u \in {Upper(ret.col_str)} :
       /\ ret.col = ColumnNumber(ret.col_str) - 1
       /\ ret.col = excel_col_to_index(u)
       /\ ret.col >= 0
       /\ excel_col_to_index(NextColumn(u)) = ret.col + 1
       /\ u = <<"A">> => ret.col = 0
       /\ u = <<"Z">> => ret.col = 25
       /\ u = <<"A", "A">> => ret.col = 26
       /\ u = <<"A", "Z">> => ret.col = 51
       /\ u = <<"B", "A">> => ret.col = 52
       /\ ret.row = RowNumber(ret.row_str) - 1
       /\ RowNumber(ret.row_str) = 0 => ret.row = -1 /\ ret.can_move_to = "OutOfBounds"

\* The lower-case answer "ba1" has been converted to column 52, row 0.
C15_Witness ==
  /\ handler = "excel_col_to_index"
  /\ args.target_position = <<"b", "a", "1">>
  /\ ret.col = 52
  /\ ret.row = 0

\* An orientation change that found a block at the clicked cell.
OrientStep ==
  /\ ActsOn("ChangeOrientation")
  /\ warning' = "none"
  /\ exc' = "none"

\* The orientation that follows o in the cycle R0, MX, MY, R180, R90.
NextOrientation(o) ==
  CASE o = "R0"   -> "MX"
    [] o = "MX"   -> "MY"
    [] o = "MY"   -> "R180"
    [] o = "R180" -> "R90"
    [] o = "R90"  -> "R0"

\* b after k further orientation changes.
RECURSIVE Turned(_, _)
Turned(b, k) == IF k = 0 THEN b ELSE Turned(update_orientation(b), k - 1)

\* C16: each orientation change on a block advances its orientation one
\* step in the cycle R0 -> MX -> MY -> R180 -> R90 -> R0; with four more
\* changes (five in a row) the block is back at the orientation it started
\* from, and after fewer than five it is not.
C16_OrientationCycle ==
  [][OrientStep =>
       \A id \in Clicked :
          /\ obj'[id].orientation = NextOrientation(obj[id].orientation)
          /\ Turned(obj'[id], 4).orientation = obj[id].orientation
          /\ \A k \in 0..3 : Turned(obj'[id], k).orientation # obj[id].orientation]_vars

\* The only block has been placed (two steps) and turned five times in a
\* row: it is back at R0.
C16_Witness ==
  /\ handler = "ChangeOrientation"
  /\ warning = "none"
  /\ exc = "none"
  /\ steps = 7
  /\ Len(block_objects) = 1
  /\ obj[block_objects[1]].orientation = "R0"
  /\ selected_blocks = <<>>

\* C17: an orientation change on the block at the clicked cell changes that
\* block's orientation only: its anchor, shape name, footprint and bounding
\* box, every other block, the block collection, the selection and every
\* grid cell with its occupant are unchanged; on an empty cell the
\* no-object warning is shown and nothing changes.
C17_OrientationFrame ==
  [][ActsOn("ChangeOrientation") =>
       /\ \A id \in Clicked :
             /\ obj' = [obj EXCEPT ![id].orientation = obj'[id].orientation]
             /\ block_objects' = block_objects
             /\ selected_blocks' = selected_blocks
             /\ grid_state' = grid_state
       /\ (InGrid(args'.x, args'.y) /\ grid_state[args'.x][args'.y] = None) =>
             /\ warning' = "NoObject"
             /\ UNCHANGED <<block_objects, obj, selected_blocks, grid_state>>]_vars

\* The physical edge on which the logical pin side s is indicated in
\* orientation o: the identity for R0, Top and Bottom swapped for MX, Left
\* and Right swapped for MY, both pairs swapped for R180, a quarter turn of
\* all four for R90.
PinEdge(o, s) ==
  CASE o = "R0"   -> [T |-> "Top", B |-> "Bottom", L |-> "Left", R |-> "Right"][s]
    [] o = "MX"   -> [T |-> "Bottom", B |-> "Top", L |-> "Left", R |-> "Right"][s]
    [] o = "MY"   -> [T |-> "Top", B |-> "Bottom", L |-> "Right", R |-> "Left"][s]
    [] o = "R180" -> [T |-> "Bottom", B |-> "Top", L |-> "Right", R |-> "Left"][s]
    [] o = "R90"  -> [T |-> "Left", B |-> "Right", L |-> "Top", R |-> "Bottom"][s]

\* C18: in each of the five orientations the edges on which pin sides are
\* indicated are the images of the shape's pin sides under the fixed
\* permutation of that orientation, so the number of indicated edges equals
\* the number of pin sides of the shape.
C18_PinPermutation ==
  handler = "draw_block" =>
    /\ ret.lines = {PinEdge(args.orientation, s) : s \in args.pinside}
    /\ Cardinality(ret.lines) = Cardinality(args.pinside)

\* C19: a single delete at an occupied cell removes exactly the occupying
\* block from the block collection and empties every grid cell that holds
\* its identity, and leaves every other block and every other cell as it
\* was; at an empty cell the no-object warning is shown and nothing changes.
C19_DeleteFrame ==
  [][(ActsOn("Delete") /\ InGrid(args'.x, args'.y)) =>
       IF grid_state[args'.x][args'.y] # None
       THEN \A id \in Clicked :
               /\ id \in Placed
               /\ Range(block_objects') = Placed \ {id}
               /\ Len(block_objects') = Len(block_objects) - 1
               /\ \A i \in Range(block_objects') : obj'[i] = obj[i]
               /\ \A c \in GridCells :
                     grid_state'[c[1]][c[2]] =
                       IF grid_state[c[1]][c[2]] = id THEN None ELSE grid_state[c[1]][c[2]]
       ELSE /\ warning' = "NoObject"
            /\ UNCHANGED <<block_objects, obj, selected_blocks, grid_state>>]_vars

\* The cells of the dragged rectangle of the step.
Dragged ==
  {c \in GridCells : /\ args'.x_start <= c[1] /\ c[1] <= args'.x_end
                     /\ args'.y_start <= c[2] /\ c[2] <= args'.y_end}

\* The blocks the region deletion of the step is to remove: those with a
\* cell inside the rectangle, in blockage-only mode the Blockage ones.
Touched ==
  {i \in Placed : /\ Cells(obj[i]) \cap Dragged # {}
                  /\ args'.mode = "Delete Blockage" => obj[i].cell_name = "Blockage"}

\* C20: region deletion removes exactly the blocks that have at least one
\* cell inside the dragged rectangle clipped to the grid, each entirely
\* (their cells outside the rectangle included), and leaves every other
\* block and its cells unchanged; in blockage-only mode only the touched
\* blocks named "Blockage" are removed.
C20_RegionDeleteExact ==
  [][ActsOn("DeleteRegion") =>
       /\ Range(block_objects') = Placed \ Touched
       /\ Len(block_objects') = Len(block_objects) - Cardinality(Touched)
       /\ \A i \in Range(block_objects') : obj'[i] = obj[i]
       /\ \A c \in GridCells :
             grid_state'[c[1]][c[2]] =
               IF grid_state[c[1]][c[2]] \in Touched THEN None ELSE grid_state[c[1]][c[2]]]_vars

KnownRecords == {k \in DOMAIN file.db : file.db[k].cell_name \in ShapeNames}

CountKnown(t) == Cardinality({k \in KnownRecords : BlockTuple(file.db[k]) = t})

\* C22: a load of a file that holds a record with a shape name outside the
\* catalog skips that record with a warning, loads every record with a known
\* shape and ends without an unhandled error.
C22_UnknownShapeSkipped ==
  [][ActsOn("load_from_file") /\ file.exists
     /\ (\E k \in DOMAIN file.db : file.db[k].cell_name \notin ShapeNames)
     => /\ exc' = "none"
        /\ warning' # "none"
        /\ Len(block_objects') = Cardinality(KnownRecords)
        /\ \A k \in KnownRecords :
              Cardinality({i \in Range(block_objects') : BlockTuple(obj'[i]) = BlockTuple(file.db[k])})
                = CountKnown(BlockTuple(file.db[k]))]_vars

\* C23: no operation ends in an unhandled error: every grid read is inside
\* [0, GRID_WIDTH) x [0, GRID_HEIGHT) and every identity read from the grid
\* is found in the block collection, so exc stays "none" in every state.
C23_NoUnhandledError ==
  exc = "none"

\* C24: move, duplicate and swap issued with an empty selection report the
\* nothing-selected warning and change no block, no selection and no grid
\* cell; a duplicate whose direction or interval prompt is cancelled changes
\* nothing either.
C24_EmptySelectionNoEffect ==
  [][/\ (ActsOn("move") \/ ActsOn("duplicate_main") \/ ActsOn("swap_main"))
        /\ Len(selected_blocks) = 0
        => /\ warning' = "NoSelection"
           /\ exc' = "none"
           /\ UNCHANGED <<block_objects, obj, grid_state, selected_blocks, selected_shape, file>>
     /\ ActsOn("duplicate_main") /\ Len(selected_blocks) > 0
        /\ (args'.direction = NoShape \/ args'.interval = Cancelled)
        => /\ exc' = "none"
           /\ UNCHANGED <<block_objects, obj, grid_state, selected_blocks, selected_shape, file>>]_vars

\* A move key pressed with nothing selected on a grid that holds two blocks.
C24_Witness ==
  /\ handler = "move" /\ warning = "NoSelection"
  /\ Len(block_objects) = 2 /\ Len(selected_blocks) = 0

\* The footprint of block i shifted by the offset of the step.
ShiftedCells(i) ==
  {<<c[1] + args'.x_offset, c[2] + args'.y_offset>> : c \in Cells(obj[i])}

\* C25: a move is accepted whenever every shifted footprint cell of every
\* selected block is inside the grid and is covered by no placed block
\* outside the selection; cells held by the selected blocks do not count.
C25_MoveAccepted ==
  [][/\ ActsOn("move") /\ Len(selected_blocks) > 0
     /\ \A i \in Range(selected_blocks) : \A c \in ShiftedCells(i) :
           /\ c \in GridCells
           /\ \A j \in Placed \ Range(selected_blocks) : c \notin Cells(obj[j])
     => ret' = "True"]_vars

\* C26: after a full redraw grid_state is exactly the projection of the
\* block collection: a cell is non-empty iff it lies in the footprint of a
\* placed block, and then it holds the identity of such a block.
C26_RedrawIsProjection ==
  handler \in {"Redraw", "Select"} /\ exc = "none" => GridIsProjection

\* C27: every member of the selection is a block of the block collection;
\* a delete removes the deleted block from the selection as well.
C27_SelectionIsPlaced ==
  Range(selected_blocks) \subseteq Placed

\* C28: without a load, every block of the block collection has all its
\* footprint cells inside [0, GRID_WIDTH) x [0, GRID_HEIGHT).
C28_FootprintsInGrid ==
  \A i \in Placed : Cells(obj[i]) \subseteq GridCells

\* A two-cell block sits against the right edge after a move to the right
\* was refused there.
C28_Witness ==
  /\ handler = "move" /\ args = Offset(1, 0) /\ ret = "False" /\ warning = "OutOfBounds"
  /\ \E i \in Placed \cap Range(selected_blocks) :
        <<GRID_WIDTH - 1, 0>> \in Cells(obj[i]) /\ Len(obj[i].block_shape) = 2

\* C29: a click at a coordinate with x >= GRID_WIDTH or y >= GRID_HEIGHT is
\* rejected with the index-out-of-range warning in every click mode, reads
\* no grid cell (raises nothing) and changes no block and no grid cell.
C29_OutsideClickRejected ==
  [][/\ ActsOn("Place") \/ ActsOn("Delete") \/ ActsOn("ChangeOrientation")
     /\ args'.x >= GRID_WIDTH \/ args'.y >= GRID_HEIGHT
     => /\ warning' = "IndexOutOfRange"
        /\ exc' = "none"
        /\ UNCHANGED <<block_objects, obj, grid_state, selected_blocks>>]_vars

\* C30: move (accepted or rejected), move-to, swap and orientation change
\* leave the block collection with the same identities, and for move,
\* move-to and swap a block outside the selection keeps its anchor, shape
\* name and orientation.
C30_NoBlockAddedOrRemoved ==
  [][ActsOn("move") \/ ActsOn("move_to") \/ ActsOn("swap_main") \/ ActsOn("ChangeOrientation")
     => /\ block_objects' = block_objects
        /\ handler' # "ChangeOrientation" =>
              \A i \in Placed \ Range(selected_blocks) : BlockTuple(obj'[i]) = BlockTuple(obj[i])]_vars

\* An accepted move of a selected block while another placed block is not
\* selected.
C30_Witness ==
  /\ handler = "move" /\ ret = "True"
  /\ Range(selected_blocks) \cap Placed # {}
  /\ Placed \ Range(selected_blocks) # {}

\* C31: a region select replaces the selection with exactly the placed
\* blocks that have a cell inside the dragged rectangle (clipped to the
\* grid), each once, leaving out Blockage blocks in the without-blockage
\* mode; no block is added, removed or altered.
C31_RegionSelectExact ==
  [][ActsOn("Select")
     => /\ exc' = "none"
        /\ Range(selected_blocks') =
             {i \in Placed : /\ Cells(obj[i]) \cap Dragged # {}
                             /\ args'.mode = "Select wo blockage" => obj[i].cell_name # "Blockage"}
        /\ Len(selected_blocks') = Cardinality(Range(selected_blocks'))
        /\ block_objects' = block_objects
        /\ \A i \in Placed : BlockTuple(obj'[i]) = BlockTuple(obj[i])]_vars

\* C32: a successful load leaves one block per record of the file and
\* nothing else (the same tuples, record for record), an empty selection
\* and a grid in which every cell no loaded block covers is empty; a load
\* of a missing file warns and leaves blocks, selection and grid as they
\* were.
C32_LoadDiscardsState ==
  [][ActsOn("load_from_file")
     => IF file.exists
        THEN /\ warning' = "Loaded" /\ exc' = "none"
             /\ Len(block_objects') = Len(file.db)
             /\ Cardinality(Range(block_objects')) = Len(file.db)
             /\ \A k \in DOMAIN file.db :
                   Cardinality({i \in Range(block_objects') :
                                   BlockTuple(obj'[i]) = BlockTuple(file.db[k])})
                     = CountFile(BlockTuple(file.db[k]))
             /\ selected_blocks' = <<>>
             /\ \A c \in GridCells :
                   (\A i \in Range(block_objects') : c \notin Cells(obj'[i]))
                      => grid_state'[c[1]][c[2]] = None
        ELSE /\ warning' = "LoadError" /\ exc' = "none"
             /\ UNCHANGED <<block_objects, obj, selected_blocks, grid_state>>]_vars

\* After a load of a file with a single record, issued at a point where
\* more than the saved block had been placed since the save.
C32_Witness ==
  /\ handler = "load_from_file" /\ warning = "Loaded"
  /\ Len(file.db) = 1 /\ Len(block_objects) = 1
  /\ steps >= 5

\* C33: the cached bounding box of every block, placed or selected, is
\* llx = x, lly = y, urx = x + max dx, ury = y + max dy over the offsets of
\* its footprint, which are the offsets the catalog gives for its shape name.
C33_BoundingBoxValid ==
  \A i \in Placed \cup Range(selected_blocks) :
     /\ obj[i].llx_in_canvas = obj[i].x
     /\ obj[i].lly_in_canvas = obj[i].y
     /\ obj[i].urx_in_canvas = obj[i].x + MaxDx(obj[i].block_shape)
     /\ obj[i].ury_in_canvas = obj[i].y + MaxDy(obj[i].block_shape)
     /\ obj[i].block_shape = SHAPE_BUTTONS[obj[i].cell_name]

\* A two-cell block that was swapped to another shape name and rotated has
\* just been moved to a new anchor by move-to.
C33_Witness ==
  /\ handler = "move_to" /\ ret = "True"
  /\ \E i \in Placed \cap Range(selected_blocks) :
        /\ obj[i].cell_name = "B" /\ obj[i].orientation # "R0"
        /\ obj[i].x = 1 /\ obj[i].y = 1 /\ obj[i].urx_in_canvas = 2

====
